---- MODULE Spec2Model ----
(***************************************************************************)
(* Verification model of sveltemark: the scroll-sync subsystem and the     *)
(* application state with its storage:                                     *)
(*   - the Scroll Mapper (syncEditorToPreview / syncPreviewToEditor),      *)
(*   - the Sync Controller (handleEditorScroll / handlePreviewScroll and   *)
(*     the scrollSource reset timer, pane resizing),                       *)
(*   - the preview's render/measure pipeline and the page's                *)
(*     syncSectionDimensions,                                              *)
(*   - the block pipeline (splitIntoBlocks, processMarkdownBlocks,         *)
(*     diffBlocks) and the Preview's scrollToLine,                         *)
(*   - appState (selectFile, updateBuffer, saveNow, the operations of the  *)
(*     file tree, exportBackup / importBackup) over the tables of db.ts.   *)
(*                                                                         *)
(* Specifications: MapSpec (the mapper as a pure function), MismatchSpec   *)
(* (the mapper over Section lists of different lengths), SyncSpec and      *)
(* SyncFairSpec (the controller over a settled page), LayoutSpec (window   *)
(* and pane resizes), RenderSpec (edits), MountSpec (the first render),    *)
(* BlockSpec (the block pipeline as pure functions), TrackerSpec (the      *)
(* mapper over measured Section lists), AnimSpec (animateScrollTo),        *)
(* SampleSpec (the line sampling of measureSections), AutosaveSpec (edits  *)
(* and saves of one file), SaveSpec (edits, saves and switches between two *)
(* files), TreeSpec (the file tree), MoveSpec (overlapping moveFolder      *)
(* calls).                                                                 *)
(*                                                                         *)
(* Pixel values are exact rationals <<numerator, denominator>> (JS numbers *)
(* without rounding error).  null is the empty tuple.                      *)
(***************************************************************************)
EXTENDS Integers, Sequences, FiniteSets, Bags, TLC

VARIABLES
    \* ---- state of the two views (Editor.svelte, Preview component) ----
    editorSections,     \* Editor.svelte:99   editorSections
    sectionInfoList,    \* Toolbar.svelte:680 sectionInfoList
    editorScroller,     \* view.scrollDOM      [scrollTop, scrollHeight, clientHeight]
    previewContainer,   \* previewContainer    [scrollTop, scrollHeight, clientHeight]
    editorScrollEvent,  \* scroll event queued for the editor and what moved the view:
                        \* "none", "user", "sync" (the controller), "layout" (a reflow)
    previewScrollEvent, \* scroll event queued for the preview
    \* ---- document and layout ----
    doc,                \* the editor's document (view.state.doc)
    paneWidth,          \* width class of the panes: "wide" or "narrow"
    buffer,             \* appState.buffer, the preview's content prop
    \* ---- preview: block processing and rendering (Toolbar.svelte:663-740) ----
    blocks,             \* blocks
    processingTimeout,  \* contents captured by the armed 16 ms timers (none: null)
    processingRuns,     \* bag of contents whose processMarkdownBlocks is in flight
    isRendering,        \* isRendering
    renderJobs,         \* render effects waiting for tick()/mermaid before measuring
    releaseTimers,      \* pending 100 ms timers that clear isRendering
    \* ---- page: Sync Controller (+page.svelte:825-1110) ----
    syncScrollEnabled,  \* appState.syncScrollEnabled
    scrollSource,       \* "null", "editor" or "preview"
    scrollSourceTimeout,\* handle held by scrollSourceTimeout (0 = null)
    pendingResets,      \* handles of the pending scrollSource reset timers
    lastEditorScrollTop,
    lastPreviewScrollTop,
    isResizingSidebar,  \* +page.svelte pane drag flags
    isResizingEditor,
    isResizingTOC,
    lastHandled,        \* what the last scroll handler invocation did
    \* ---- re-measurement scheduling ----
    changeBuffer,       \* Editor.svelte:70 changeBuffer (its 50 ms timer is pending iff not null)
    measureSectionsTimeout, \* +page.svelte:827: the 100 ms timer is pending
    initialMeasureTimeout,  \* +page.svelte:779: the 500 ms timer of onMount is pending
    windowResizeTimeout,    \* +page.svelte:712 resizeTimeout: number of pending 200 ms timers
    remeasureFrames,        \* +page.svelte:1351: frames left of each pending rAF chain
    editorResizeTimeout,    \* Editor.svelte:1593 resizeTimeout: number of pending 50 ms timers
    editorResizeFrames,     \* Editor.svelte:1594 resizeFrameId: frames left of the rAF chain
    unsettled,          \* views whose Sections were measured before the last layout change
    \* ---- Scroll Mapper call record (pure-function specification) ----
    mapQuery,           \* the arguments of the last mapper calls
    mapResult,          \* what those calls returned / divided by
    \* ---- block pipeline call record (pure-function specification) ----
    blockQuery,         \* the function of part_000 / Preview method that was called
    blockResult,        \* what the call returned and which calls it made
    \* ---- smoothed scrolling of one view (Editor.svelte:1871-1943) ----
    anim,               \* the animation variables, the view's scrollTop, the last call
    \* ---- application state (appState.svelte.ts:33-46) and storage (db.ts) ----
    activeFileId,       \* activeFileId (nullId = null)
    dirty,              \* dirty
    isSaving,           \* isSaving
    saveTimer,          \* saveTimer: number of pending 1000 ms timers
    folders,            \* folders, the copy of db.folders read by refreshData
    files,              \* files, the copy of db.files read by refreshData
    db,                 \* the tables db.folders and db.files and their key generators
    dbQueue             \* requests issued to storage by handlers that await them

mapVars == <<mapQuery, mapResult>>
blockVars == <<blockQuery, blockResult>>
animVars == <<anim>>
appVars == <<activeFileId, dirty, isSaving, saveTimer, folders, files, db, dbQueue>>
viewVars == <<editorSections, sectionInfoList, editorScroller, previewContainer>>
eventVars == <<editorScrollEvent, previewScrollEvent>>
docVars == <<doc, paneWidth, buffer, changeBuffer>>
renderVars == <<blocks, processingTimeout, processingRuns, isRendering, renderJobs, releaseTimers>>
ctrlVars == <<syncScrollEnabled, scrollSource, scrollSourceTimeout, pendingResets,
              lastEditorScrollTop, lastPreviewScrollTop>>
dragVars == <<isResizingSidebar, isResizingEditor, isResizingTOC>>
measureVars == <<measureSectionsTimeout, initialMeasureTimeout, windowResizeTimeout,
                 remeasureFrames, editorResizeTimeout, editorResizeFrames>>
\* everything outside the Sync Controller and the two scrollers
pipelineVars == <<docVars, renderVars, dragVars, measureVars, unsettled>>
vars == <<viewVars, eventVars, ctrlVars, lastHandled, pipelineVars, mapVars, blockVars,
         animVars, appVars>>

(***************************************************************************)
(* Bounds                                                                  *)
(***************************************************************************)
MaxSections == 2      \* longest Section list drawn for the mapper
MaxOffset == 3        \* largest startOffset drawn for a Section
MaxHeight == 2        \* height drawn for a non-empty last Section
MaxScroll == 4        \* largest max-scroll (scrollHeight - clientHeight) drawn
Grid == 2             \* mapper inputs are multiples of 1/Grid px

(***************************************************************************)
(* JS number arithmetic on exact rationals                                 *)
(***************************************************************************)
null == <<>>

Abs(n) == IF n < 0 THEN -n ELSE n

RECURSIVE GCD(_, _)
GCD(a, b) == IF b = 0 THEN a ELSE GCD(b, a % b)

\* n/d in lowest terms with a positive denominator; x/0 is +-Infinity (<<+-1,0>>)
\* and 0/0 is NaN (<<0,0>>), as in JS
Norm(n, d) ==
    IF d = 0 THEN <<IF n > 0 THEN 1 ELSE IF n < 0 THEN -1 ELSE 0, 0>>
    ELSE LET g == GCD(Abs(n), Abs(d))
             s == IF d < 0 THEN -1 ELSE 1
         IN  <<(s * n) \div g, (s * d) \div g>>

R(n) == <<n, 1>>
RAdd(a, b) == Norm(a[1] * b[2] + b[1] * a[2], a[2] * b[2])
RSub(a, b) == Norm(a[1] * b[2] - b[1] * a[2], a[2] * b[2])
RMul(a, b) == Norm(a[1] * b[1], a[2] * b[2])
RDiv(a, b) == Norm(a[1] * b[2], a[2] * b[1])
RLe(a, b) == a[1] * b[2] <= b[1] * a[2]
RLt(a, b) == a[1] * b[2] < b[1] * a[2]
RMax(a, b) == IF RLe(a, b) THEN b ELSE a
RMin(a, b) == IF RLe(a, b) THEN a ELSE b
RAbs(a) == <<Abs(a[1]), a[2]>>

(***************************************************************************)
(* Scroll Mapper, +page.svelte:882-1054                                    *)
(***************************************************************************)
Min2(a, b) == IF a <= b THEN a ELSE b

\* a faulty buildScrollMapping that pairs the editor's first sections with the
\* preview's last ones
buildScrollMappingPairsTail(eSecs, pSecs) ==
    IF Len(eSecs) = 0 \/ Len(pSecs) = 0 THEN null
    ELSE LET numSections == Min2(Len(eSecs), Len(pSecs))
         IN  [i \in 1..numSections |->
                [editorDimension |-> eSecs[i].editorDimension,
                 previewDimension |-> pSecs[Len(pSecs) - numSections + i].previewDimension]]

\* buildScrollMapping: null when either list is empty, else the index-wise
\* pairing of the first min(len, len) sections
buildScrollMapping(eSecs, pSecs) ==
    IF Len(eSecs) = 0 \/ Len(pSecs) = 0 THEN null
    ELSE LET numSections == Min2(Len(eSecs), Len(pSecs))
         IN  [i \in 1..numSections |->
                [editorDimension |-> eSecs[i].editorDimension,
                 previewDimension |-> pSecs[i].previewDimension]]

maxScrollOf(dims) == dims.scrollHeight - dims.clientHeight

\* no smoothed scroll has been requested: Editor.svelte:1872-1876 and the
\* view at the top
AnimIdle ==
    [view |-> "none", scrollTop |-> 0, animationFrameId |-> 0, elapsed |-> 0,
     animationStartScroll |-> 0, animationTargetScroll |-> 0, lastTargetScroll |-> 0,
     isSyncingScroll |-> FALSE, releaseTimers |-> 0,
     callSeq |-> 0, requested |-> 0, restTarget |-> 0]

\* the for loop of lines 928-935 (1-based here): the index is advanced while
\* scrollTop >= startOffset and the loop breaks at the first section beyond
RECURSIVE editorSectionLoop(_, _, _, _)
editorSectionLoop(editorScrollTop, sections, i, currentSectionIdx) ==
    IF i > Len(sections) THEN currentSectionIdx
    ELSE IF RLe(R(sections[i].editorDimension.startOffset), editorScrollTop)
         THEN editorSectionLoop(editorScrollTop, sections, i + 1, i)
         ELSE currentSectionIdx

\* the for loop of lines 1003-1010
RECURSIVE previewSectionLoop(_, _, _, _)
previewSectionLoop(previewScrollTop, sections, i, currentSectionIdx) ==
    IF i > Len(sections) THEN currentSectionIdx
    ELSE IF RLe(R(sections[i].previewDimension.startOffset), previewScrollTop)
         THEN previewSectionLoop(previewScrollTop, sections, i + 1, i)
         ELSE currentSectionIdx

Max2(a, b) == IF a >= b THEN a ELSE b

\* faulty variant of editorRange: divides whatever the range is
editorRangeNoGuard(sections, idx, editorMaxScroll) ==
    LET sectionStart == sections[idx].editorDimension.startOffset
        range == IF idx < Len(sections)
                 THEN sections[idx + 1].editorDimension.startOffset - sectionStart
                 ELSE Max2(sections[idx].editorDimension.height, editorMaxScroll - sectionStart)
    IN  [divides |-> TRUE, by |-> range]

\* lines 944-960: the range the editor position is divided by, and whether the
\* division is executed at all (guards sectionRange > 0 / effectiveRange > 0)
editorRange(sections, idx, editorMaxScroll) ==
    LET sectionStart == sections[idx].editorDimension.startOffset
        range == IF idx < Len(sections)
                 THEN sections[idx + 1].editorDimension.startOffset - sectionStart
                 ELSE Max2(sections[idx].editorDimension.height, editorMaxScroll - sectionStart)
    IN  [divides |-> range > 0, by |-> range]

\* lines 1019-1035, the mirror for the preview position
previewRange(sections, idx, previewMaxScroll) ==
    LET sectionStart == sections[idx].previewDimension.startOffset
        range == IF idx < Len(sections)
                 THEN sections[idx + 1].previewDimension.startOffset - sectionStart
                 ELSE Max2(sections[idx].previewDimension.height, previewMaxScroll - sectionStart)
    IN  [divides |-> range > 0, by |-> range]

\* Math.max(0, Math.min(1, v))
clamp01(v) == RMax(R(0), RMin(R(1), v))

\* faulty variant of editorQuickPath: no end anchor
editorQuickPathNoEndAnchor(editorScrollTop, editorMaxScroll, previewMaxScroll) ==
    IF editorMaxScroll <= 1 THEN R(0)
    ELSE IF previewMaxScroll <= 1 THEN R(0)
    ELSE IF RLe(editorScrollTop, R(0)) THEN R(0)
    ELSE null

\* lines 919-924: degenerate ranges and the start/end anchors; null = fall through
editorQuickPath(editorScrollTop, editorMaxScroll, previewMaxScroll) ==
    IF editorMaxScroll <= 1 THEN R(0)
    ELSE IF previewMaxScroll <= 1 THEN R(0)
    ELSE IF RLe(editorScrollTop, R(0)) THEN R(0)
    ELSE IF RLe(R(editorMaxScroll - 1), editorScrollTop) THEN R(previewMaxScroll)
    ELSE null

\* faulty variant of previewQuickPath: the end anchor is missing
previewQuickPathNoEndAnchor(previewScrollTop, previewMaxScroll, editorMaxScroll) ==
    IF previewMaxScroll <= 1 THEN R(0)
    ELSE IF editorMaxScroll <= 1 THEN R(0)
    ELSE IF RLe(previewScrollTop, R(0)) THEN R(0)
    ELSE null

\* lines 995-1000
previewQuickPath(previewScrollTop, previewMaxScroll, editorMaxScroll) ==
    IF previewMaxScroll <= 1 THEN R(0)
    ELSE IF editorMaxScroll <= 1 THEN R(0)
    ELSE IF RLe(previewScrollTop, R(0)) THEN R(0)
    ELSE IF RLe(R(previewMaxScroll - 1), previewScrollTop) THEN R(editorMaxScroll)
    ELSE null

\* faulty variant of clampToScrollRange: lower clamp only
clampToScrollRangeLowerOnly(v, maxScroll) == RMax(R(0), v)

\* lines 978 and 1053: Math.min(Math.max(0, v), maxScroll)
clampToScrollRange(v, maxScroll) == RMin(RMax(R(0), v), R(maxScroll))

\* lines 962-976: the preview position at fraction posInSection of section idx
previewPositionAt(sections, idx, posInSection, previewMaxScroll) ==
    LET previewSectionStart == sections[idx].previewDimension.startOffset
    IN  IF idx < Len(sections)
        THEN LET previewSectionEnd == sections[idx + 1].previewDimension.startOffset
             IN  RAdd(R(previewSectionStart),
                      RMul(R(previewSectionEnd - previewSectionStart), posInSection))
        ELSE LET sectionHeight == sections[idx].previewDimension.height
                 distanceToEnd == previewMaxScroll - previewSectionStart
                 effectiveRange == Max2(sectionHeight, distanceToEnd)
             IN  RAdd(R(previewSectionStart), RMul(R(effectiveRange), posInSection))

\* faulty variant of editorPositionAt: the mirror left reading the preview's dimensions
editorPositionAtPreviewDims(sections, idx, posInSection, editorMaxScroll) ==
    LET editorSectionStart == sections[idx].previewDimension.startOffset
    IN  IF idx < Len(sections)
        THEN LET editorSectionEnd == sections[idx + 1].previewDimension.startOffset
             IN  RAdd(R(editorSectionStart),
                      RMul(R(editorSectionEnd - editorSectionStart), posInSection))
        ELSE LET sectionHeight == sections[idx].previewDimension.height
                 distanceToEnd == editorMaxScroll - editorSectionStart
                 effectiveRange == Max2(sectionHeight, distanceToEnd)
             IN  RAdd(R(editorSectionStart), RMul(R(effectiveRange), posInSection))

\* lines 1037-1051: the editor position at fraction posInSection of section idx
editorPositionAt(sections, idx, posInSection, editorMaxScroll) ==
    LET editorSectionStart == sections[idx].editorDimension.startOffset
    IN  IF idx < Len(sections)
        THEN LET editorSectionEnd == sections[idx + 1].editorDimension.startOffset
             IN  RAdd(R(editorSectionStart),
                      RMul(R(editorSectionEnd - editorSectionStart), posInSection))
        ELSE LET sectionHeight == sections[idx].editorDimension.height
                 distanceToEnd == editorMaxScroll - editorSectionStart
                 effectiveRange == Max2(sectionHeight, distanceToEnd)
             IN  RAdd(R(editorSectionStart), RMul(R(effectiveRange), posInSection))

\* syncEditorToPreview after the null checks: lines 914-978.  Returns the
\* value, the divisors of the divisions that were executed and the index of
\* the section used for the interpolation (0 when a quick path returned).
editorToPreviewCall(editorScrollTop, sections, editorDims, previewDims) ==
    LET previewMaxScroll == maxScrollOf(previewDims)
        editorMaxScroll == maxScrollOf(editorDims)
        currentSectionIdx == editorSectionLoop(editorScrollTop, sections, 1, 1)
        currentSection == sections[currentSectionIdx]
        rng == editorRange(sections, currentSectionIdx, editorMaxScroll)
        sectionStart == currentSection.editorDimension.startOffset
        posInSection ==
            IF rng.divides
            THEN clamp01(RDiv(RSub(editorScrollTop, R(sectionStart)), R(rng.by)))
            ELSE R(0)
        previewScrollTop ==
            previewPositionAt(sections, currentSectionIdx, posInSection, previewMaxScroll)
        quick == editorQuickPath(editorScrollTop, editorMaxScroll, previewMaxScroll)
    IN  IF quick # null THEN [value |-> quick, divs |-> {}, section |-> 0]
        ELSE [value |-> clampToScrollRange(previewScrollTop, previewMaxScroll),
              divs |-> IF rng.divides THEN {rng.by} ELSE {},
              section |-> currentSectionIdx]

\* syncPreviewToEditor after the null checks: lines 990-1053
previewToEditorCall(previewScrollTop, sections, editorDims, previewDims) ==
    LET editorMaxScroll == maxScrollOf(editorDims)
        previewMaxScroll == maxScrollOf(previewDims)
        currentSectionIdx == previewSectionLoop(previewScrollTop, sections, 1, 1)
        currentSection == sections[currentSectionIdx]
        rng == previewRange(sections, currentSectionIdx, previewMaxScroll)
        sectionStart == currentSection.previewDimension.startOffset
        posInSection ==
            IF rng.divides
            THEN clamp01(RDiv(RSub(previewScrollTop, R(sectionStart)), R(rng.by)))
            ELSE R(0)
        editorScrollTop ==
            editorPositionAt(sections, currentSectionIdx, posInSection, editorMaxScroll)
        quick == previewQuickPath(previewScrollTop, previewMaxScroll, editorMaxScroll)
    IN  IF quick # null THEN [value |-> quick, divs |-> {}, section |-> 0]
        ELSE [value |-> clampToScrollRange(editorScrollTop, editorMaxScroll),
              divs |-> IF rng.divides THEN {rng.by} ELSE {},
              section |-> currentSectionIdx]

\* syncEditorToPreview, lines 906-979 (value null when there is no mapping)
syncEditorToPreviewCall(editorScrollTop, eSecs, pSecs, editorDims, previewDims) ==
    LET mapping == buildScrollMapping(eSecs, pSecs)
    IN  IF mapping = null THEN [value |-> null, divs |-> {}, section |-> 0]
        ELSE editorToPreviewCall(editorScrollTop, mapping, editorDims, previewDims)

\* syncPreviewToEditor, lines 982-1054
syncPreviewToEditorCall(previewScrollTop, eSecs, pSecs, editorDims, previewDims) ==
    LET mapping == buildScrollMapping(eSecs, pSecs)
    IN  IF mapping = null THEN [value |-> null, divs |-> {}, section |-> 0]
        ELSE previewToEditorCall(previewScrollTop, mapping, editorDims, previewDims)

syncEditorToPreview(x, eSecs, pSecs, editorDims, previewDims) ==
    syncEditorToPreviewCall(x, eSecs, pSecs, editorDims, previewDims).value

syncPreviewToEditor(x, eSecs, pSecs, editorDims, previewDims) ==
    syncPreviewToEditorCall(x, eSecs, pSecs, editorDims, previewDims).value

(***************************************************************************)
(* Documents, segmentation and layout.                                     *)
(* A document is a sequence of lines; a line is 0 (blank), 1 (short text), *)
(* 2 (long text, wraps to two rows in a narrow pane), 3 (a link reference  *)
(* definition, which renders no element), 4 (an ATX heading) or 5 (text    *)
(* on which a plugin of the block processor throws).                       *)
(***************************************************************************)
\* markdown.trim() is empty: every line is blank
isBlank(markdown) == \A i \in 1..Len(markdown) : markdown[i] = 0

\* parser.parse(markdown).children with each node's position.start.line and
\* position.end.line.  A heading is a node of its own and ends an open
\* paragraph; a definition is a node of its own unless it continues a
\* paragraph; every other maximal run of non-blank lines is one paragraph.
RECURSIVE parseFrom(_, _, _)
parseFrom(markdown, i, nodeStart) ==
    LET open(last) == IF nodeStart = 0 THEN <<>>
                      ELSE <<[startLine |-> nodeStart, endLine |-> last]>>
    IN  IF i > Len(markdown) THEN open(Len(markdown))
        ELSE IF markdown[i] = 0
             THEN open(i - 1) \o parseFrom(markdown, i + 1, 0)
        ELSE IF markdown[i] = 4 \/ (markdown[i] = 3 /\ nodeStart = 0)
             THEN open(i - 1) \o <<[startLine |-> i, endLine |-> i]>>
                  \o parseFrom(markdown, i + 1, 0)
        ELSE parseFrom(markdown, i + 1, IF nodeStart = 0 THEN i ELSE nodeStart)

\* a faulty splitIntoBlocks that numbers the lines from 0
splitIntoBlocksZeroBased(markdown) ==
    IF isBlank(markdown) THEN <<>>
    ELSE LET children == parseFrom(markdown, 1, 0)
         IN  [k \in 1..Len(children) |->
                [source |-> SubSeq(markdown, children[k].startLine, children[k].endLine),
                 startLine |-> children[k].startLine - 1,
                 endLine |-> children[k].endLine - 1]]

\* splitIntoBlocks, part_000:106-126
splitIntoBlocks(markdown) ==
    IF isBlank(markdown) THEN <<>>
    ELSE LET children == parseFrom(markdown, 1, 0)
         IN  [k \in 1..Len(children) |->
                [source |-> SubSeq(markdown, children[k].startLine, children[k].endLine),
                 startLine |-> children[k].startLine,
                 endLine |-> children[k].endLine]]

\* ---- generateBlockId, part_000:90-101 ----
\* the UTF-16 code units of a line: "", "a", "a a", "[a]: b", "# a", "$"
lineText(line) ==
    CASE line = 0 -> <<>>
      [] line = 1 -> <<97>>
      [] line = 2 -> <<97, 32, 97>>
      [] line = 3 -> <<91, 97, 93, 58, 32, 98>>
      [] line = 4 -> <<35, 32, 97>>
      [] line = 5 -> <<36>>

\* lines.slice(...).join('\n') as code units
RECURSIVE joinLines(_, _)
joinLines(source, k) ==
    IF k > Len(source) THEN <<>>
    ELSE lineText(source[k])
         \o (IF k < Len(source) THEN <<10>> ELSE <<>>) \o joinLines(source, k + 1)

\* the decimal digits of a positive number as code units
RECURSIVE decimal(_)
decimal(n) == (IF n >= 10 THEN decimal(n \div 10) ELSE <<>>) \o <<48 + (n % 10)>>

\* a 32-bit integer is kept as <<high 16 bits, low 16 bits>> of its two's
\* complement
Half == 65536
\* hash = ((hash << 5) - hash) + char; hash = hash & hash
hashStep(hash, char) ==
    LET lo == 31 * hash[2] + char
        hi == 31 * hash[1] + (lo \div Half)
    IN  <<hi % Half, lo % Half>>

RECURSIVE hashFrom(_, _, _)
hashFrom(str, i, hash) ==
    IF i > Len(str) THEN hash ELSE hashFrom(str, i + 1, hashStep(hash, str[i]))

\* Math.abs of a 32-bit value (2^31 for the most negative one)
abs32(hash) ==
    IF hash[1] < Half \div 2 THEN hash
    ELSE IF hash[2] = 0 THEN <<Half - hash[1], 0>>
    ELSE <<Half - 1 - hash[1], Half - hash[2]>>

\* a faulty generateBlockId that derives the id from the content alone
generateBlockIdContentOnly(source, startLine, index) ==
    <<0, abs32(hashFrom(joinLines(source, 1), 1, <<0, 0>>)), 0>>

\* `b${index}-${Math.abs(hash).toString(36)}-${startLine}` as the triple of
\* its three fields
generateBlockId(source, startLine, index) ==
    LET str == joinLines(source, 1) \o <<124>> \o decimal(startLine)
    IN  <<index, abs32(hashFrom(str, 1, <<0, 0>>)), startLine>>

\* ---- processBlock, part_000:131-135 ----
throws(source) == \E k \in 1..Len(source) : source[k] = 5

\* the elements of blockProcessor.process(source): one per node of the
\* block's own parse tree that renders, tagged by rehypeSourceLines
\* (part_000:15-24) with the node's line in that tree
processBlock(source) ==
    IF isBlank(source) THEN <<>>
    ELSE LET children == parseFrom(source, 1, 0)
             renders(node) == source[node.startLine] # 3
             rendered == SelectSeq(children, renders)
         IN  [e \in 1..Len(rendered) |-> [dataSourceLine |-> rendered[e].startLine]]

\* ---- processMarkdownBlocks, part_000:140-157 ----
\* the blocks before the first one whose processBlock throws
RECURSIVE firstThrowing(_, _)
firstThrowing(rawBlocks, i) ==
    IF i > Len(rawBlocks) THEN i
    ELSE IF throws(rawBlocks[i].source) THEN i
    ELSE firstThrowing(rawBlocks, i + 1)

\* the call with what it did: whether the promise rejects, the value it
\* resolves to, and the calls of processBlock it made, each with the 0-based
\* position i of the block and the source passed
processMarkdownBlocksCall(markdown) ==
    LET rawBlocks == splitIntoBlocks(markdown)
        stop == firstThrowing(rawBlocks, 1)
        rejects == stop <= Len(rawBlocks)
    IN  [rejects |-> rejects,
         processBlockCalls |->
             [i \in 1..(IF rejects THEN stop ELSE Len(rawBlocks)) |->
                 [index |-> i - 1, source |-> rawBlocks[i].source]],
         value |->
             IF rejects THEN <<>>
             ELSE [i \in 1..Len(rawBlocks) |->
                     [id |-> generateBlockId(rawBlocks[i].source, rawBlocks[i].startLine, i - 1),
                      source |-> rawBlocks[i].source,
                      html |-> processBlock(rawBlocks[i].source),
                      startLine |-> rawBlocks[i].startLine,
                      endLine |-> rawBlocks[i].endLine]]]

\* processMarkdownBlocks of a document on which no block throws
processMarkdownBlocks(markdown) == processMarkdownBlocksCall(markdown).value

\* ---- layout engine: rows a line takes in a pane of the given width ----
Wide == "wide"
Narrow == "narrow"
Rows(line, width) == IF line = 2 /\ width = Narrow THEN 2 ELSE 1

EditorLineHeight == 1     \* px per editor row
EditorPadding == 1        \* .cm-content padding above the first line
EditorClientHeight == 3   \* px of the editor viewport
EditorViewportMargin == 2 \* px beyond the viewport that CodeMirror keeps drawn
PreviewLineHeight == 2    \* px per rendered row
PreviewGap == 1           \* px of margin after a rendered block
PreviewClientHeight == 3  \* px of the preview viewport

RECURSIVE editorRowsBefore(_, _, _)
editorRowsBefore(text, width, line) ==
    IF line <= 1 THEN 0
    ELSE Rows(text[line - 1], width) + editorRowsBefore(text, width, line - 1)

\* view.lineBlockAt(pos).top / .bottom: relative to the top of the document
lineBlockTop(text, width, line) == EditorLineHeight * editorRowsBefore(text, width, line)
lineBlockBottom(text, width, line) ==
    lineBlockTop(text, width, line) + EditorLineHeight * Rows(text[line], width)

\* position of a line in the scroller's content: coords.top - scrollRect.top + scrollTop
editorLineTop(text, width, line) == EditorPadding + lineBlockTop(text, width, line)
editorLineBottom(text, width, line) == EditorPadding + lineBlockBottom(text, width, line)

editorScrollHeight(text, width) ==
    Max2(EditorClientHeight,
         2 * EditorPadding + EditorLineHeight * editorRowsBefore(text, width, Len(text) + 1))

\* view.coordsAtPos is null for a line that is not drawn (outside the viewport
\* and its margin)
coordsAvailable(text, width, line, scrollTop) ==
    /\ editorLineBottom(text, width, line) >= scrollTop - EditorViewportMargin
    /\ editorLineTop(text, width, line) <= scrollTop + EditorClientHeight + EditorViewportMargin

\* rendered rows of a block: a definition line renders nothing
RECURSIVE previewRows(_, _, _)
previewRows(source, width, k) ==
    IF k > Len(source) THEN 0
    ELSE (IF source[k] = 3 THEN 0 ELSE Rows(source[k], width))
         + previewRows(source, width, k + 1)

previewBlockHeight(block, width) == PreviewLineHeight * previewRows(block.source, width, 1)
hasChildren(block) == previewRows(block.source, Wide, 1) > 0

RECURSIVE previewBlockTop(_, _, _)
previewBlockTop(blks, width, i) ==
    IF i <= 1 THEN 0
    ELSE previewBlockTop(blks, width, i - 1)
         + (IF hasChildren(blks[i - 1])
            THEN previewBlockHeight(blks[i - 1], width) + PreviewGap ELSE 0)

previewScrollHeight(blks, width) ==
    Max2(PreviewClientHeight, previewBlockTop(blks, width, Len(blks) + 1))

(***************************************************************************)
(* Dimension Trackers                                                      *)
(***************************************************************************)
\* measureSectionDimensions, Toolbar.svelte:743-790: the new sectionInfoList.
\* .markdown-block is display:contents, so offsetHeight is 0 and a block
\* without child elements is recorded with offsets 0.
measureSectionDimensions(blks, width) ==
    [index \in 1..Len(blks) |->
        LET block == blks[index]
            startOffset == IF hasChildren(block) THEN previewBlockTop(blks, width, index) ELSE 0
            endOffset == IF hasChildren(block)
                         THEN previewBlockTop(blks, width, index) + previewBlockHeight(block, width)
                         ELSE 0
        IN  [startLine |-> block.startLine, endLine |-> block.endLine,
             previewDimension |-> [startOffset |-> startOffset, endOffset |-> endOffset,
                                   height |-> endOffset - startOffset]]]

\* the lines visited by the sampling loop of Editor.svelte:1759-1777 and the
\* last-line check of 1780
MaxSamples == 30
samplingStep(startLine, endLine) ==
    LET linesToCheck == Min2(endLine - startLine + 1, MaxSamples)
    IN  Max2(1, (endLine - startLine) \div linesToCheck)
\* the values of lineNum in the for loop of lines 1759-1777
loopLines(startLine, endLine) ==
    { l \in startLine..endLine : (l - startLine) % samplingStep(startLine, endLine) = 0 }
\* `if (endLine % step !== 0)`, line 1780
lastLineChecked(startLine, endLine) == endLine % samplingStep(startLine, endLine) # 0
sampledLines(startLine, endLine) ==
    loopLines(startLine, endLine)
    \cup (IF lastLineChecked(startLine, endLine) THEN {endLine} ELSE {})

SetMin(S) == CHOOSE m \in S : \A x \in S : m <= x
SetMax(S) == CHOOSE m \in S : \A x \in S : m >= x

\* measureSections, Editor.svelte:1701-1817, for one section
measureSection(section, text, width, scrollTop) ==
    LET totalLines == Max2(1, Len(text))
        startLine == Max2(1, Min2(section.startLine, totalLines))
        endLine == Max2(1, Min2(section.endLine, totalLines))
        haveCoords == /\ coordsAvailable(text, width, startLine, scrollTop)
                      /\ coordsAvailable(text, width, endLine, scrollTop)
        startOffset0 == IF haveCoords THEN editorLineTop(text, width, startLine)
                        ELSE lineBlockTop(text, width, startLine)
        endOffset0 == IF haveCoords THEN editorLineBottom(text, width, endLine)
                      ELSE lineBlockBottom(text, width, endLine)
        drawn == { l \in sampledLines(startLine, endLine) :
                     coordsAvailable(text, width, l, scrollTop) }
        sample == startLine < endLine /\ haveCoords
        startOffset == IF sample
                       THEN SetMin({startOffset0} \cup { editorLineTop(text, width, l) : l \in drawn })
                       ELSE startOffset0
        endOffset == IF sample
                     THEN SetMax({endOffset0} \cup { editorLineBottom(text, width, l) : l \in drawn })
                     ELSE endOffset0
    IN  [startLine |-> startLine, endLine |-> endLine,
         editorDimension |-> [startOffset |-> startOffset, endOffset |-> endOffset,
                              height |-> Max2(0, endOffset - startOffset)]]

measureSections(sections, text, width, scrollTop) ==
    [k \in 1..Len(sections) |-> measureSection(sections[k], text, width, scrollTop)]

(***************************************************************************)
(* Scroll plumbing of the two views                                        *)
(***************************************************************************)
\* the browser keeps scrollTop on whole pixels: round half up
SnapPx(q) == (2 * q[1] + q[2]) \div (2 * q[2])

\* a scroll event is queued when scrollTop really changes; a queued user
\* event keeps its origin, one event is delivered per frame
queueEvent(queued, oldTop, newTop, origin) ==
    IF newTop = oldTop THEN queued
    ELSE IF queued \in {"user", "layout"} THEN queued ELSE origin

\* the browser clamps scrollTop when the content becomes shorter
withScrollHeight(dims, h) ==
    [scrollTop |-> Min2(dims.scrollTop, Max2(0, h - dims.clientHeight)),
     scrollHeight |-> h, clientHeight |-> dims.clientHeight]

\* Preview scrollToOffset, Toolbar.svelte:1007-1015
previewScrollToOffset(offset) ==
    IF isRendering THEN previewContainer
    ELSE [previewContainer EXCEPT
            !.scrollTop = SnapPx(clampToScrollRange(offset, maxScrollOf(previewContainer)))]

\* Preview scrollToPercent, Toolbar.svelte:1048-1056
previewScrollToPercent(percent) ==
    IF isRendering THEN previewContainer
    ELSE [previewContainer EXCEPT
            !.scrollTop = SnapPx(RMul(R(maxScrollOf(previewContainer)), percent))]

\* Editor scrollToOffset, Editor.svelte:1971-1981
editorScrollToOffset(offset) ==
    [editorScroller EXCEPT
        !.scrollTop = SnapPx(clampToScrollRange(offset, maxScrollOf(editorScroller)))]

\* Editor scrollToPercent, Editor.svelte:2004-2012
editorScrollToPercent(percent) ==
    [editorScroller EXCEPT
        !.scrollTop = SnapPx(RMul(R(maxScrollOf(editorScroller)), percent))]

(***************************************************************************)
(* Sync Controller, +page.svelte:825-1110                                  *)
(***************************************************************************)
NothingHandled == [view |-> "none", origin |-> "none", outcome |-> "none"]

\* isResizingLayout, +page.svelte:828
isResizingLayout == isResizingSidebar \/ isResizingEditor \/ isResizingTOC

\* getScrollSyncThreshold, +page.svelte:864-868
getScrollSyncThreshold ==
    RMax(<<1, 2>>, RMin(R(2), RMul(R(editorScroller.clientHeight), <<5, 10000>>)))

\* the handle setTimeout returns once clearTimeout(scrollSourceTimeout) has
\* run: the smallest one that is not pending
newHandle == CHOOSE h \in 1..(Cardinality(pendingResets) + 1) :
                 /\ h \notin pendingResets \ {scrollSourceTimeout}
                 /\ \A g \in 1..(h - 1) : g \in pendingResets \ {scrollSourceTimeout}

\* setTimeout(.., 100) without the clearTimeout before it
restartResetTimerNoClear ==
    LET h == CHOOSE g \in 1..(Cardinality(pendingResets) + 1) : g \notin pendingResets
    IN  /\ scrollSourceTimeout' = h
        /\ pendingResets' = pendingResets \cup {h}

\* clearTimeout(scrollSourceTimeout); scrollSourceTimeout = setTimeout(.., 100),
\* +page.svelte:1068-1071 and 1096-1099
restartResetTimer ==
    /\ scrollSourceTimeout' = newHandle
    /\ pendingResets' = (pendingResets \ {scrollSourceTimeout}) \cup {newHandle}

\* the guards of handleEditorScroll, +page.svelte:1058-1064
editorScrollOutcome ==
    IF ~syncScrollEnabled THEN "disabled"
    ELSE IF scrollSource = "preview" THEN "source"
    ELSE IF isResizingLayout THEN "resizing"
    ELSE IF RLt(RAbs(RSub(R(editorScroller.scrollTop), R(lastEditorScrollTop))),
                getScrollSyncThreshold) THEN "threshold"
    ELSE "accepted"

\* the guards of handlePreviewScroll, +page.svelte:1086-1092, without the
\* scrollSource guard
previewScrollOutcomeNoSourceGuard ==
    IF isRendering THEN "rendering"
    ELSE IF ~syncScrollEnabled THEN "disabled"
    ELSE IF isResizingLayout THEN "resizing"
    ELSE IF RLt(RAbs(RSub(R(previewContainer.scrollTop), R(lastPreviewScrollTop))),
                getScrollSyncThreshold) THEN "threshold"
    ELSE "accepted"

\* the guards of the preview's handleScroll, Toolbar.svelte:859-868, and of
\* handlePreviewScroll, +page.svelte:1086-1092
previewScrollOutcome ==
    IF isRendering THEN "rendering"
    ELSE IF ~syncScrollEnabled THEN "disabled"
    ELSE IF scrollSource = "editor" THEN "source"
    ELSE IF isResizingLayout THEN "resizing"
    ELSE IF RLt(RAbs(RSub(R(previewContainer.scrollTop), R(lastPreviewScrollTop))),
                getScrollSyncThreshold) THEN "threshold"
    ELSE "accepted"

\* where handleEditorScroll sends the preview, +page.svelte:1072-1081
previewAfterEditorScroll ==
    LET targetScroll == syncEditorToPreview(R(editorScroller.scrollTop), editorSections,
                                            sectionInfoList, editorScroller, previewContainer)
        maxScroll == maxScrollOf(editorScroller)
        percent == IF maxScroll > 0 THEN Norm(editorScroller.scrollTop, maxScroll) ELSE R(0)
    IN  IF targetScroll # null THEN previewScrollToOffset(targetScroll)
        ELSE previewScrollToPercent(percent)

\* where handlePreviewScroll sends the editor, +page.svelte:1100-1109
editorAfterPreviewScroll ==
    LET targetScroll == syncPreviewToEditor(R(previewContainer.scrollTop), editorSections,
                                            sectionInfoList, editorScroller, previewContainer)
        maxScroll == maxScrollOf(previewContainer)
        percent == IF maxScroll > 0 THEN Norm(previewContainer.scrollTop, maxScroll) ELSE R(0)
    IN  IF targetScroll # null THEN editorScrollToOffset(targetScroll)
        ELSE editorScrollToPercent(percent)

\* the user scrolls the editor (wheel, scrollbar, keyboard) to position t
UserScrollsEditor(t) ==
    /\ t \in 0..maxScrollOf(editorScroller)
    /\ t # editorScroller.scrollTop
    /\ editorScroller' = [editorScroller EXCEPT !.scrollTop = t]
    /\ editorScrollEvent' = "user"
    /\ UNCHANGED <<editorSections, sectionInfoList, previewContainer, previewScrollEvent,
                   ctrlVars, lastHandled, pipelineVars, mapVars, blockVars, animVars, appVars>>

\* the user scrolls the preview to position t
UserScrollsPreview(t) ==
    /\ t \in 0..maxScrollOf(previewContainer)
    /\ t # previewContainer.scrollTop
    /\ previewContainer' = [previewContainer EXCEPT !.scrollTop = t]
    /\ previewScrollEvent' = "user"
    /\ UNCHANGED <<editorSections, sectionInfoList, editorScroller, editorScrollEvent,
                   ctrlVars, lastHandled, pipelineVars, mapVars, blockVars, animVars, appVars>>

\* the editor's scroll listener, Editor.svelte:986-999 (isSyncingScroll is
\* false whenever an event is delivered: it is set and cleared within one
\* synchronous call), calling handleEditorScroll, +page.svelte:1057-1082
EditorScrollEvent ==
    /\ editorScrollEvent # "none"
    /\ editorScrollEvent' = "none"
    /\ lastHandled' = [view |-> "editor", origin |-> editorScrollEvent,
                       outcome |-> editorScrollOutcome]
    /\ IF editorScrollOutcome = "accepted"
       THEN /\ lastEditorScrollTop' = editorScroller.scrollTop
            /\ scrollSource' = "editor"
            /\ restartResetTimer
            /\ previewContainer' = previewAfterEditorScroll
            /\ previewScrollEvent' = queueEvent(previewScrollEvent, previewContainer.scrollTop,
                                                previewAfterEditorScroll.scrollTop, "sync")
            /\ UNCHANGED <<syncScrollEnabled, lastPreviewScrollTop>>
       ELSE UNCHANGED <<ctrlVars, previewContainer, previewScrollEvent>>
    /\ UNCHANGED <<editorSections, sectionInfoList, editorScroller, pipelineVars,
                   mapVars, blockVars, animVars, appVars>>

\* the preview's handleScroll, Toolbar.svelte:859-868, calling
\* handlePreviewScroll, +page.svelte:1085-1110
PreviewScrollEvent ==
    /\ previewScrollEvent # "none"
    /\ previewScrollEvent' = "none"
    /\ lastHandled' = [view |-> "preview", origin |-> previewScrollEvent,
                       outcome |-> previewScrollOutcome]
    /\ IF previewScrollOutcome = "accepted"
       THEN /\ lastPreviewScrollTop' = previewContainer.scrollTop
            /\ scrollSource' = "preview"
            /\ restartResetTimer
            /\ editorScroller' = editorAfterPreviewScroll
            /\ editorScrollEvent' = queueEvent(editorScrollEvent, editorScroller.scrollTop,
                                               editorAfterPreviewScroll.scrollTop, "sync")
            /\ UNCHANGED <<syncScrollEnabled, lastEditorScrollTop>>
       ELSE UNCHANGED <<ctrlVars, editorScroller, editorScrollEvent>>
    /\ UNCHANGED <<editorSections, sectionInfoList, previewContainer, pipelineVars,
                   mapVars, blockVars, animVars, appVars>>

\* the callback of the reset timer, +page.svelte:1069-1071 and 1097-1099
ScrollSourceTimeoutFires ==
    \E h \in pendingResets :
        /\ pendingResets' = pendingResets \ {h}
        /\ scrollSource' = "null"
        /\ UNCHANGED <<syncScrollEnabled, scrollSourceTimeout, lastEditorScrollTop,
                       lastPreviewScrollTop, viewVars, eventVars, lastHandled,
                       pipelineVars, mapVars, blockVars, animVars, appVars>>

\* the sync-scroll toggle of the toolbar
ToggleSyncScroll ==
    /\ syncScrollEnabled' = ~syncScrollEnabled
    /\ UNCHANGED <<scrollSource, scrollSourceTimeout, pendingResets, lastEditorScrollTop,
                   lastPreviewScrollTop, viewVars, eventVars, lastHandled,
                   pipelineVars, mapVars, blockVars, animVars, appVars>>

(***************************************************************************)
(* Preview: block processing, rendering and measurement                    *)
(***************************************************************************)
MaxRuns == 2      \* processMarkdownBlocks runs in flight at once
MaxJobs == 2      \* render effects and release timers pending at once

\* a faulty diffBlocks that compares an old block with the new block one
\* position further down
diffBlocksShifted(oldBlocks, newBlocks) ==
    [p \in 1..Max2(Len(oldBlocks), Len(newBlocks)) |->
        LET i == p - 1
        IN  IF p > Len(oldBlocks)
            THEN [type |-> "add", index |-> i, block |-> newBlocks[p]]
            ELSE IF p > Len(newBlocks)
            THEN [type |-> "remove", index |-> i, oldIndex |-> i]
            ELSE IF p < Len(newBlocks) /\ oldBlocks[p].source = newBlocks[p + 1].source
            THEN [type |-> "keep", index |-> i, block |-> newBlocks[p]]
            ELSE [type |-> "update", index |-> i, block |-> newBlocks[p], oldIndex |-> i]]

\* a faulty diffBlocks that looks an old block up by its source instead of
\* its position
diffBlocksByContent(oldBlocks, newBlocks) ==
    [p \in 1..Max2(Len(oldBlocks), Len(newBlocks)) |->
        LET i == p - 1
        IN  IF p > Len(newBlocks)
            THEN [type |-> "remove", index |-> i, oldIndex |-> i]
            ELSE IF \E q \in 1..Len(oldBlocks) : oldBlocks[q].source = newBlocks[p].source
            THEN [type |-> "keep", index |-> i, block |-> newBlocks[p]]
            ELSE IF p > Len(oldBlocks)
            THEN [type |-> "add", index |-> i, block |-> newBlocks[p]]
            ELSE [type |-> "update", index |-> i, block |-> newBlocks[p], oldIndex |-> i]]

\* diffBlocks, part_000:170-197: entry p of the sequence is the code's
\* diffs[p - 1]
diffBlocks(oldBlocks, newBlocks) ==
    [p \in 1..Max2(Len(oldBlocks), Len(newBlocks)) |->
        LET i == p - 1
        IN  IF p > Len(oldBlocks)
            THEN [type |-> "add", index |-> i, block |-> newBlocks[p]]
            ELSE IF p > Len(newBlocks)
            THEN [type |-> "remove", index |-> i, oldIndex |-> i]
            ELSE IF oldBlocks[p].source = newBlocks[p].source
            THEN [type |-> "keep", index |-> i, block |-> newBlocks[p]]
            ELSE [type |-> "update", index |-> i, block |-> newBlocks[p], oldIndex |-> i]]

\* syncSectionDimensions, +page.svelte:843-857: the editor's new Section list
syncSectionDimensions ==
    IF Len(sectionInfoList) > 0
    THEN measureSections([k \in 1..Len(sectionInfoList) |->
                             [startLine |-> sectionInfoList[k].startLine,
                              endLine |-> sectionInfoList[k].endLine]],
                         doc, paneWidth, editorScroller.scrollTop)
    ELSE editorSections

\* the effect of Toolbar.svelte:698-707 for a new content: the armed timer is
\* cleared and one capturing the content is armed
restartProcessingNoClear(timers, content) == Append(timers, content)
restartProcessing(timers, content) == <<content>>

\* the callback of the 16 ms timer starts the asynchronous
\* processMarkdownBlocks(currentContent), Toolbar.svelte:707-708
ProcessingTimeoutFires ==
    /\ processingTimeout # null
    /\ BagCardinality(processingRuns) < MaxRuns
    /\ \E t \in DOMAIN processingTimeout :
          /\ processingRuns' = processingRuns (+) SetToBag({processingTimeout[t]})
          /\ processingTimeout' = [k \in 1..(Len(processingTimeout) - 1) |->
                                     processingTimeout[IF k < t THEN k ELSE k + 1]]
    /\ UNCHANGED <<blocks, isRendering, renderJobs, releaseTimers, viewVars, eventVars,
                   ctrlVars, lastHandled, docVars, dragVars, measureVars, unsettled, mapVars, blockVars, animVars, appVars>>

\* processMarkdownBlocks resolves, Toolbar.svelte:708-717; when blocks is
\* replaced the DOM is updated and the render effect of 722-740 starts
ProcessingCompletes ==
    /\ renderJobs + releaseTimers < MaxJobs
    /\ \E c \in BagToSet(processingRuns) :
        LET run == processMarkdownBlocksCall(c)
            newBlocks == run.value
            diffs == diffBlocks(blocks, newBlocks)
            hasChanges == \E i \in DOMAIN diffs : diffs[i].type # "keep"
            resized == withScrollHeight(previewContainer,
                                        previewScrollHeight(newBlocks, paneWidth))
        IN  /\ processingRuns' = processingRuns (-) SetToBag({c})
            /\ IF ~run.rejects /\ hasChanges
               THEN /\ blocks' = newBlocks
                    /\ previewContainer' = resized
                    /\ previewScrollEvent' = queueEvent(previewScrollEvent,
                                                        previewContainer.scrollTop,
                                                        resized.scrollTop, "layout")
                    /\ IF Len(newBlocks) > 0
                       THEN isRendering' = TRUE /\ renderJobs' = renderJobs + 1
                       ELSE UNCHANGED <<isRendering, renderJobs>>
               ELSE UNCHANGED <<blocks, previewContainer, previewScrollEvent,
                                isRendering, renderJobs>>
            /\ UNCHANGED <<processingTimeout, releaseTimers, editorSections, sectionInfoList,
                           editorScroller, editorScrollEvent, ctrlVars, lastHandled, docVars,
                           dragVars, measureVars, unsettled, mapVars, blockVars, animVars, appVars>>

\* the continuation of the render effect after tick() and the mermaid
\* rendering, Toolbar.svelte:729-738: measure, then arm the release timer
RenderJobMeasures ==
    /\ renderJobs > 0
    /\ renderJobs' = renderJobs - 1
    /\ sectionInfoList' = measureSectionDimensions(blocks, paneWidth)
    /\ releaseTimers' = releaseTimers + 1
    /\ unsettled' = unsettled \ {"preview"}
    /\ UNCHANGED <<blocks, processingTimeout, processingRuns, isRendering, editorSections,
                   editorScroller, previewContainer, eventVars, ctrlVars, lastHandled,
                   docVars, dragVars, measureVars, mapVars, blockVars, animVars, appVars>>

\* the callback of the 100 ms timer of Toolbar.svelte:736-738
ReleaseTimerFires ==
    /\ releaseTimers > 0
    /\ releaseTimers' = releaseTimers - 1
    /\ isRendering' = FALSE
    /\ UNCHANGED <<blocks, processingTimeout, processingRuns, renderJobs, viewVars, eventVars,
                   ctrlVars, lastHandled, docVars, dragVars, measureVars, unsettled, mapVars, blockVars, animVars, appVars>>

\* the callback of the 500 ms timer of onMount, +page.svelte:785-787
InitialMeasureTimeoutFires ==
    /\ initialMeasureTimeout
    /\ initialMeasureTimeout' = FALSE
    /\ editorSections' = syncSectionDimensions
    /\ unsettled' = IF Len(sectionInfoList) > 0 THEN unsettled \ {"editor"} ELSE unsettled
    /\ UNCHANGED <<sectionInfoList, editorScroller, previewContainer, eventVars, ctrlVars,
                   lastHandled, docVars, renderVars, dragVars, measureSectionsTimeout,
                   windowResizeTimeout, remeasureFrames, editorResizeTimeout,
                   editorResizeFrames, mapVars, blockVars, animVars, appVars>>

(***************************************************************************)
(* Layout changes and the re-measurement they schedule                     *)
(***************************************************************************)
otherWidth(w) == IF w = Wide THEN Narrow ELSE Wide

\* `if (resizeTimeout) clearTimeout(resizeTimeout); resizeTimeout =
\* setTimeout(...)` on a debouncer with `pending` timers armed: the armed timer
\* is the one the variable names, it is cleared, and the new one is pending
debounceNoClear(pending) == pending + 1
debounce(pending) == 1

\* the editor's own re-measurement, Editor.svelte:1603-1609
remeasureEditorSections ==
    IF Len(editorSections) > 0
    THEN measureSections([k \in 1..Len(editorSections) |->
                             [startLine |-> editorSections[k].startLine,
                              endLine |-> editorSections[k].endLine]],
                         doc, paneWidth, editorScroller.scrollTop)
    ELSE editorSections

\* the panes get width w: both views reflow, the browser clamps their scroll
\* positions, and the editor's ResizeObserver callback (Editor.svelte:1595-1612)
\* cancels its pending timer and frame and arms the 50 ms timer
Reflow(w) ==
    LET e == withScrollHeight(editorScroller, editorScrollHeight(doc, w))
        p == withScrollHeight(previewContainer, previewScrollHeight(blocks, w))
    IN  /\ paneWidth' = w
        /\ editorScroller' = e
        /\ previewContainer' = p
        /\ editorScrollEvent' = queueEvent(editorScrollEvent, editorScroller.scrollTop,
                                           e.scrollTop, "layout")
        /\ previewScrollEvent' = queueEvent(previewScrollEvent, previewContainer.scrollTop,
                                            p.scrollTop, "layout")
        /\ editorResizeTimeout' = debounce(editorResizeTimeout)
        /\ editorResizeFrames' = 0
        /\ unsettled' = {"editor", "preview"}

\* the window is resized: the reflow, and handleResize of +page.svelte:713-718
WindowResize ==
    /\ Reflow(otherWidth(paneWidth))
    /\ windowResizeTimeout' = debounce(windowResizeTimeout)
    /\ UNCHANGED <<editorSections, sectionInfoList, doc, buffer, changeBuffer, renderVars,
                   ctrlVars, lastHandled, dragVars, measureSectionsTimeout,
                   initialMeasureTimeout, remeasureFrames, mapVars, blockVars, animVars, appVars>>

\* the callback of the 200 ms timer, +page.svelte:715-717
WindowResizeTimeoutFires ==
    /\ windowResizeTimeout > 0
    /\ windowResizeTimeout' = windowResizeTimeout - 1
    /\ editorSections' = syncSectionDimensions
    /\ unsettled' = IF Len(sectionInfoList) > 0 THEN unsettled \ {"editor"} ELSE unsettled
    /\ UNCHANGED <<sectionInfoList, editorScroller, previewContainer, eventVars, ctrlVars,
                   lastHandled, docVars, renderVars, dragVars, measureSectionsTimeout,
                   initialMeasureTimeout, remeasureFrames, editorResizeTimeout,
                   editorResizeFrames, mapVars, blockVars, animVars, appVars>>

\* the callback of the editor's 50 ms timer requests the first of two frames,
\* Editor.svelte:1600-1602
EditorResizeTimeoutFires ==
    /\ editorResizeTimeout > 0
    /\ editorResizeTimeout' = editorResizeTimeout - 1
    /\ editorResizeFrames' = 2
    /\ UNCHANGED <<viewVars, eventVars, ctrlVars, lastHandled, docVars, renderVars, dragVars,
                   measureSectionsTimeout, initialMeasureTimeout, windowResizeTimeout,
                   remeasureFrames, unsettled, mapVars, blockVars, animVars, appVars>>

\* one animation frame runs every requested callback: the chains of
\* +page.svelte:1351-1357 (and 796-802) and of Editor.svelte:1602-1611.  When
\* both measure in the same frame the page's line ranges end up measured,
\* whichever callback runs first.
AnimationFrame ==
    /\ remeasureFrames # {} \/ editorResizeFrames > 0
    /\ remeasureFrames' = { k - 1 : k \in remeasureFrames \ {1} }
    /\ editorResizeFrames' = Max2(0, editorResizeFrames - 1)
    /\ LET pageMeasures == 1 \in remeasureFrames /\ Len(sectionInfoList) > 0
           editorMeasures == editorResizeFrames = 1 /\ Len(editorSections) > 0
       IN  /\ editorSections' = IF pageMeasures THEN syncSectionDimensions
                                ELSE IF editorMeasures THEN remeasureEditorSections
                                ELSE editorSections
           /\ unsettled' = IF pageMeasures \/ editorMeasures THEN unsettled \ {"editor"}
                           ELSE unsettled
    /\ UNCHANGED <<sectionInfoList, editorScroller, previewContainer, eventVars, ctrlVars,
                   lastHandled, docVars, renderVars, dragVars, measureSectionsTimeout,
                   initialMeasureTimeout, windowResizeTimeout, editorResizeTimeout, mapVars, blockVars, animVars, appVars>>

\* startSidebarResize, startEditorResize, startTOCResize, +page.svelte:1290-1312
StartResize(handle) ==
    /\ ~isResizingLayout
    /\ isResizingSidebar' = (handle = "sidebar")
    /\ isResizingEditor' = (handle = "editor")
    /\ isResizingTOC' = (handle = "toc")
    /\ UNCHANGED <<viewVars, eventVars, ctrlVars, lastHandled, docVars, renderVars,
                   measureVars, unsettled, mapVars, blockVars, animVars, appVars>>

\* handleResizeMove, +page.svelte:1314-1336, for a drag of the sidebar or of
\* the editor/preview divider that changes the panes' width class
HandleResizeMove ==
    /\ isResizingSidebar \/ isResizingEditor
    /\ Reflow(otherWidth(paneWidth))
    /\ UNCHANGED <<editorSections, sectionInfoList, doc, buffer, changeBuffer, renderVars,
                   ctrlVars, lastHandled, dragVars, measureSectionsTimeout,
                   initialMeasureTimeout, windowResizeTimeout, remeasureFrames, mapVars, blockVars, animVars, appVars>>

\* handleResizeEnd, +page.svelte:1339-1361
HandleResizeEnd ==
    /\ isResizingLayout
    /\ isResizingSidebar' = FALSE
    /\ isResizingEditor' = FALSE
    /\ isResizingTOC' = FALSE
    /\ remeasureFrames' = IF isResizingSidebar \/ isResizingEditor
                          THEN remeasureFrames \cup {3} ELSE remeasureFrames
    /\ UNCHANGED <<viewVars, eventVars, ctrlVars, lastHandled, docVars, renderVars,
                   measureSectionsTimeout, initialMeasureTimeout, windowResizeTimeout,
                   editorResizeTimeout, editorResizeFrames, unsettled, mapVars, blockVars, animVars, appVars>>

(***************************************************************************)
(* Application state and storage (appState.svelte.ts, db.ts)               *)
(*                                                                         *)
(* A table is the sequence of its rows in key order, which is the order of *)
(* toArray(); folderKey and fileKey are the last keys the ++id generators  *)
(* handed out.  A folder row is [id, name, parentId], a file row is        *)
(* [id, folderId, title, content]; isOpen and the dates are not modelled.  *)
(* Names and titles are numbers standing for distinct strings.            *)
(***************************************************************************)
nullId == 0     \* null where an id is expected (the keys of ++id start at 1)

\* the state initialize() leaves (lines 138-163) after initializeDB
\* (db.ts:302-311) created the folder 'Notes' and one file in it, here with
\* the given content, and selectFile opened that file; otherFiles are rows
\* of files created since, with the keys 2, 3, ...
Opened(content, otherFiles) ==
    /\ db = [folders |-> <<[id |-> 1, name |-> 1, parentId |-> nullId]>>,
             files |-> <<[id |-> 1, folderId |-> 1, title |-> 1, content |-> content]>>
                       \o otherFiles,
             folderKey |-> 1,
             fileKey |-> 1 + Len(otherFiles)]
    /\ folders = db.folders
    /\ files = db.files
    /\ activeFileId = 1
    /\ dirty = FALSE
    /\ isSaving = FALSE
    /\ saveTimer = 0
    /\ dbQueue = <<>>

\* updateBuffer(content), appState.svelte.ts:189-203
updateBuffer(content) ==
    /\ buffer' = content
    /\ dirty' = TRUE
    /\ isSaving' = TRUE
    /\ saveTimer' = debounce(saveTimer)

\* what the components do when appState.buffer becomes content: the
\* preview's effect of Toolbar.svelte:698-719 restarts the 16 ms timer, and
\* the editor's effect of Editor.svelte:1654-1666 replaces a document that
\* differs from it (isUpdating keeps the update listener from buffering it)
bufferEffects(content) ==
    /\ processingTimeout' = IF content # buffer
                            THEN restartProcessing(processingTimeout, content)
                            ELSE processingTimeout
    /\ IF content = doc
       THEN UNCHANGED <<doc, editorScroller, editorScrollEvent, unsettled>>
       ELSE LET e == withScrollHeight(editorScroller, editorScrollHeight(content, paneWidth))
            IN  /\ doc' = content
                /\ editorScroller' = e
                /\ editorScrollEvent' = queueEvent(editorScrollEvent, editorScroller.scrollTop,
                                                   e.scrollTop, "layout")
                /\ unsettled' = {"editor", "preview"}

(***************************************************************************)
(* Content changes                                                         *)
(***************************************************************************)
\* the user types: the editor's document becomes d and the update listener
\* of Editor.svelte:968-983 buffers it and restarts the 50 ms timer
UserEdits(d) ==
    LET e == withScrollHeight(editorScroller, editorScrollHeight(d, paneWidth))
    IN  /\ d # doc
        /\ doc' = d
        /\ changeBuffer' = d
        /\ editorScroller' = e
        /\ editorScrollEvent' = queueEvent(editorScrollEvent, editorScroller.scrollTop,
                                           e.scrollTop, "layout")
        /\ unsettled' = {"editor", "preview"}
        /\ UNCHANGED <<editorSections, sectionInfoList, previewContainer, previewScrollEvent,
                       paneWidth, buffer, renderVars, ctrlVars, lastHandled, dragVars,
                       measureVars, mapVars, blockVars, animVars, appVars>>

\* the callback of the 50 ms timer calls onchange = handleEditorChange,
\* +page.svelte:830-840: updateBuffer, and the 100 ms timer is restarted; a
\* new buffer value reruns the preview's effect of Toolbar.svelte:698-719,
\* which restarts the 16 ms timer
ChangeTimeoutFires ==
    /\ changeBuffer # null
    /\ changeBuffer' = null
    /\ updateBuffer(changeBuffer)
    /\ measureSectionsTimeout' = TRUE
    /\ bufferEffects(changeBuffer)
    /\ UNCHANGED <<editorSections, sectionInfoList, previewContainer, previewScrollEvent,
                   paneWidth, blocks, processingRuns, isRendering, renderJobs, releaseTimers,
                   ctrlVars, lastHandled, dragVars, initialMeasureTimeout, windowResizeTimeout,
                   remeasureFrames, editorResizeTimeout, editorResizeFrames, mapVars,
                   blockVars, animVars, activeFileId, folders, files, db, dbQueue>>

\* the callback of the 100 ms timer, +page.svelte:837-839; the preview's
\* 16 ms timer, armed no later than it, has fired before
MeasureSectionsTimeoutFires ==
    /\ measureSectionsTimeout
    /\ processingTimeout = null
    /\ measureSectionsTimeout' = FALSE
    /\ editorSections' = syncSectionDimensions
    /\ unsettled' = IF Len(sectionInfoList) > 0 THEN unsettled \ {"editor"} ELSE unsettled
    /\ UNCHANGED <<sectionInfoList, editorScroller, previewContainer, eventVars, ctrlVars,
                   lastHandled, docVars, renderVars, dragVars, initialMeasureTimeout,
                   windowResizeTimeout, remeasureFrames, editorResizeTimeout,
                   editorResizeFrames, mapVars, blockVars, animVars, appVars>>

(***************************************************************************)
(* Page states the specifications start from                               *)
(***************************************************************************)
\* the page after onMount: the document is loaded, nothing is rendered or
\* measured yet; the first processing timer, the 500 ms timer and the frame
\* chain of the wordWrap effect (+page.svelte:791-803) are pending
Mounted(d, w) ==
    /\ doc = d /\ buffer = d /\ paneWidth = w /\ changeBuffer = null
    /\ editorSections = <<>> /\ sectionInfoList = <<>>
    /\ editorScroller = [scrollTop |-> 0, scrollHeight |-> editorScrollHeight(d, w),
                         clientHeight |-> EditorClientHeight]
    /\ previewContainer = [scrollTop |-> 0, scrollHeight |-> PreviewClientHeight,
                           clientHeight |-> PreviewClientHeight]
    /\ editorScrollEvent = "none" /\ previewScrollEvent = "none"
    /\ blocks = <<>> /\ processingTimeout = <<d>> /\ processingRuns = EmptyBag
    /\ isRendering = FALSE /\ renderJobs = 0 /\ releaseTimers = 0
    /\ syncScrollEnabled = TRUE /\ scrollSource = "null"
    /\ scrollSourceTimeout = 0 /\ pendingResets = {}
    /\ lastEditorScrollTop = 0 /\ lastPreviewScrollTop = 0
    /\ isResizingSidebar = FALSE /\ isResizingEditor = FALSE /\ isResizingTOC = FALSE
    /\ lastHandled = NothingHandled
    /\ measureSectionsTimeout = FALSE /\ initialMeasureTimeout = TRUE
    /\ windowResizeTimeout = 0 /\ remeasureFrames = {3}
    /\ editorResizeTimeout = 0 /\ editorResizeFrames = 0
    /\ unsettled = {}
    /\ mapQuery = "none" /\ mapResult = <<>>
        /\ blockQuery = "none" /\ blockResult = <<>> /\ anim = AnimIdle
        /\ Opened(buffer, <<>>)

\* the page once the first render of document d has been measured and every
\* timer of the mount has fired; the editor's Sections are measured iff a
\* syncSectionDimensions ran after the preview's measurement
\* (otherFiles: the files of storage besides the open one)
SettledWith(d, w, editorMeasured, otherFiles) ==
    LET blks == processMarkdownBlocks(d)
        info == measureSectionDimensions(blks, w)
    IN  /\ doc = d /\ buffer = d /\ paneWidth = w /\ changeBuffer = null
        /\ sectionInfoList = info
        /\ editorSections = IF editorMeasured /\ Len(info) > 0
                            THEN measureSections([k \in 1..Len(info) |->
                                                     [startLine |-> info[k].startLine,
                                                      endLine |-> info[k].endLine]], d, w, 0)
                            ELSE <<>>
        /\ editorScroller = [scrollTop |-> 0, scrollHeight |-> editorScrollHeight(d, w),
                             clientHeight |-> EditorClientHeight]
        /\ previewContainer = [scrollTop |-> 0, scrollHeight |-> previewScrollHeight(blks, w),
                               clientHeight |-> PreviewClientHeight]
        /\ editorScrollEvent = "none" /\ previewScrollEvent = "none"
        /\ blocks = blks /\ processingTimeout = null /\ processingRuns = EmptyBag
        /\ isRendering = FALSE /\ renderJobs = 0 /\ releaseTimers = 0
        /\ syncScrollEnabled = TRUE /\ scrollSource = "null"
        /\ scrollSourceTimeout = 0 /\ pendingResets = {}
        /\ lastEditorScrollTop = 0 /\ lastPreviewScrollTop = 0
        /\ isResizingSidebar = FALSE /\ isResizingEditor = FALSE /\ isResizingTOC = FALSE
        /\ lastHandled = NothingHandled
        /\ measureSectionsTimeout = FALSE /\ initialMeasureTimeout = FALSE
        /\ windowResizeTimeout = 0 /\ remeasureFrames = {}
        /\ editorResizeTimeout = 0 /\ editorResizeFrames = 0
        /\ unsettled = {}
        /\ mapQuery = "none" /\ mapResult = <<>>
        /\ blockQuery = "none" /\ blockResult = <<>> /\ anim = AnimIdle
        /\ Opened(buffer, otherFiles)

Settled(d, w, editorMeasured) == SettledWith(d, w, editorMeasured, <<>>)

(***************************************************************************)
(* Specification SyncSpec: the Sync Controller and the two scrollers over  *)
(* a rendered and measured document                                        *)
(***************************************************************************)
DocTwoBlocks == <<1, 0, 2, 0, 0>>
DocOneBlock == <<1, 1>>
SyncDocs == {DocTwoBlocks, DocOneBlock}
MaxTarget == 5   \* the user scrolls to the positions 0..MaxTarget of a view

SyncInit ==
    \E d \in SyncDocs : \E w \in {Wide, Narrow} : \E m \in BOOLEAN : Settled(d, w, m)

SyncNext ==
    \/ \E t \in 0..MaxTarget : UserScrollsEditor(t)
    \/ \E t \in 0..MaxTarget : UserScrollsPreview(t)
    \/ EditorScrollEvent
    \/ PreviewScrollEvent
    \/ ScrollSourceTimeoutFires
    \/ ToggleSyncScroll

SyncSpec == SyncInit /\ [][SyncNext]_vars

\* a timer that is pending fires
SyncFairSpec == SyncSpec /\ WF_vars(ScrollSourceTimeoutFires)

(***************************************************************************)
(* Specification LayoutSpec: window and pane resizes of a rendered and     *)
(* measured document, with the Sync Controller                             *)
(***************************************************************************)
LayoutTarget == 2   \* the position the user scrolls the editor to

LayoutInit == Settled(DocTwoBlocks, Wide, TRUE)

LayoutNext ==
    \/ WindowResize
    \/ WindowResizeTimeoutFires
    \/ EditorResizeTimeoutFires
    \/ AnimationFrame
    \/ \E handle \in {"sidebar", "editor", "toc"} : StartResize(handle)
    \/ HandleResizeMove
    \/ HandleResizeEnd
    \/ UserScrollsEditor(LayoutTarget)
    \/ EditorScrollEvent
    \/ PreviewScrollEvent
    \/ ScrollSourceTimeoutFires

LayoutSpec == LayoutInit /\ [][LayoutNext]_vars

(***************************************************************************)
(* Specification RenderSpec: edits of a rendered and measured document,    *)
(* through the preview's processing, rendering and measuring and the       *)
(* page's re-measurement of the editor                                     *)
(***************************************************************************)
\* the empty document is one empty line
DocEmpty == <<0>>
RenderDocs == { <<1>>, <<1, 0, 1>>, <<1, 0, 0, 1>>, DocEmpty }

RenderInit == Settled(<<1>>, Wide, TRUE)

RenderNext ==
    \/ \E d \in RenderDocs : UserEdits(d)
    \/ ChangeTimeoutFires
    \/ ProcessingTimeoutFires
    \/ ProcessingCompletes
    \/ RenderJobMeasures
    \/ ReleaseTimerFires
    \/ MeasureSectionsTimeoutFires

RenderSpec == RenderInit /\ [][RenderNext]_vars

(***************************************************************************)
(* Specification MountSpec: from the mounted page to the settled one       *)
(***************************************************************************)
\* heading, paragraph, blank, link reference definition
DocWithDefinition == <<4, 1, 0, 3>>
MountDocs == SyncDocs \cup {DocWithDefinition}

MountInit == \E d \in MountDocs : \E w \in {Wide, Narrow} : Mounted(d, w)

MountNext ==
    \/ ProcessingTimeoutFires
    \/ ProcessingCompletes
    \/ RenderJobMeasures
    \/ ReleaseTimerFires
    \/ InitialMeasureTimeoutFires
    \/ AnimationFrame

MountSpec == MountInit /\ [][MountNext]_vars

\* once every timer and job of the mount is done the page is a settled one
MountSettles ==
    (/\ processingTimeout = null /\ processingRuns = EmptyBag
     /\ renderJobs = 0 /\ releaseTimers = 0
     /\ ~initialMeasureTimeout /\ remeasureFrames = {})
    => \E m \in BOOLEAN : Settled(doc, paneWidth, m)

(***************************************************************************)
(* Specification MapSpec: the Scroll Mapper as a pure function of the      *)
(* trackers' Section lists and the two views' scroll dimensions            *)
(***************************************************************************)
Dimension(start, h) == [startOffset |-> start, endOffset |-> start + h, height |-> h]

\* the Section lists a tracker can hold: n sections at arbitrary start
\* offsets, each reaching to the next one's start (height 0 when the next one
\* starts above it), the last one of height lastH
DimensionLists(n) ==
    { [i \in 1..n |->
          IF i < n THEN Dimension(st[i], Max2(0, st[i + 1] - st[i]))
          ELSE Dimension(st[i], lastH)] :
      st \in [1..n -> 0..MaxOffset], lastH \in {0, MaxHeight} }

EditorSectionLists ==
    UNION { { [i \in 1..n |-> [startLine |-> i, endLine |-> i, editorDimension |-> d[i]]] :
              d \in DimensionLists(n) } : n \in 0..MaxSections }

PreviewSectionLists ==
    UNION { { [i \in 1..n |-> [startLine |-> i, endLine |-> i, previewDimension |-> d[i]]] :
              d \in DimensionLists(n) } : n \in 0..MaxSections }

ViewportHeight == 3
ScrollRanges == {1, 2, MaxScroll}
ScrollDims == { [scrollTop |-> 0, scrollHeight |-> ViewportHeight + m,
                 clientHeight |-> ViewportHeight] : m \in ScrollRanges }

\* every position k/Grid of a view whose max scroll is m
Positions(m) == { Norm(k, Grid) : k \in 0..(Grid * m) }

\* the page with the given Section lists in the trackers, nothing queued,
\* nothing pending and no mapper call made yet
MapIdle(eLists, pLists) ==
    /\ editorSections \in eLists
    /\ sectionInfoList \in pLists
    /\ editorScroller \in ScrollDims
    /\ previewContainer \in ScrollDims
    /\ mapQuery = "none"
    /\ mapResult = <<>>
    /\ blockQuery = "none" /\ blockResult = <<>> /\ anim = AnimIdle
    /\ editorScrollEvent = "none" /\ previewScrollEvent = "none"
    /\ doc = <<0>> /\ paneWidth = Wide /\ buffer = <<0>> /\ changeBuffer = null
    /\ isResizingSidebar = FALSE /\ isResizingEditor = FALSE /\ isResizingTOC = FALSE
    /\ measureSectionsTimeout = FALSE /\ windowResizeTimeout = 0
    /\ remeasureFrames = {} /\ editorResizeTimeout = 0 /\ editorResizeFrames = 0
    /\ unsettled = {}
    /\ blocks = <<>> /\ processingTimeout = null /\ processingRuns = EmptyBag
    /\ isRendering = FALSE /\ renderJobs = 0 /\ releaseTimers = 0
    /\ syncScrollEnabled = TRUE /\ scrollSource = "null"
    /\ scrollSourceTimeout = 0 /\ pendingResets = {}
    /\ lastEditorScrollTop = 0 /\ lastPreviewScrollTop = 0
    /\ initialMeasureTimeout = FALSE
    /\ lastHandled = NothingHandled
    /\ Opened(buffer, <<>>)

MapInit == MapIdle(EditorSectionLists, PreviewSectionLists)

\* syncEditorToPreview applied to every editor position, and syncPreviewToEditor
\* applied to each result
MapEditorToPreview ==
    /\ mapQuery = "none"
    /\ mapQuery' = "editorToPreview"
    /\ mapResult' =
          [x \in Positions(maxScrollOf(editorScroller)) |->
             LET fwd == syncEditorToPreviewCall(x, editorSections, sectionInfoList,
                                                editorScroller, previewContainer)
             IN  [value |-> fwd.value, divs |-> fwd.divs, section |-> fwd.section,
                  back |-> IF fwd.value = null THEN null
                           ELSE syncPreviewToEditor(fwd.value, editorSections, sectionInfoList,
                                                    editorScroller, previewContainer)]]
    /\ UNCHANGED <<viewVars, eventVars, ctrlVars, lastHandled, pipelineVars, blockVars, animVars, appVars>>

MapPreviewToEditor ==
    /\ mapQuery = "none"
    /\ mapQuery' = "previewToEditor"
    /\ mapResult' =
          [x \in Positions(maxScrollOf(previewContainer)) |->
             LET fwd == syncPreviewToEditorCall(x, editorSections, sectionInfoList,
                                                editorScroller, previewContainer)
             IN  [value |-> fwd.value, divs |-> fwd.divs, section |-> fwd.section,
                  back |-> IF fwd.value = null THEN null
                           ELSE syncEditorToPreview(fwd.value, editorSections, sectionInfoList,
                                                    editorScroller, previewContainer)]]
    /\ UNCHANGED <<viewVars, eventVars, ctrlVars, lastHandled, pipelineVars, blockVars, animVars, appVars>>

MapNext == MapEditorToPreview \/ MapPreviewToEditor

MapSpec == MapInit /\ [][MapNext]_vars

(***************************************************************************)
(* Specification MismatchSpec: the Scroll Mapper over Section lists of     *)
(* different lengths (one tracker measured a block list the other has not  *)
(* seen yet)                                                               *)
(***************************************************************************)
MaxMismatch == 3

LongEditorSectionLists ==
    UNION { { [i \in 1..n |-> [startLine |-> i, endLine |-> i, editorDimension |-> d[i]]] :
              d \in DimensionLists(n) } : n \in 0..MaxMismatch }

LongPreviewSectionLists ==
    UNION { { [i \in 1..n |-> [startLine |-> i, endLine |-> i, previewDimension |-> d[i]]] :
              d \in DimensionLists(n) } : n \in 0..MaxMismatch }

MismatchInit ==
    /\ MapIdle(LongEditorSectionLists, LongPreviewSectionLists)
    /\ Len(editorSections) # Len(sectionInfoList)

MismatchSpec == MismatchInit /\ [][MapNext]_vars

(***************************************************************************)
(* Specification BlockSpec: the block pipeline of part_000 and the Preview *)
(* as pure functions of the previously rendered blocks and the current     *)
(* content                                                                 *)
(***************************************************************************)
MaxLines == 3
BlockLines == {0, 1, 3, 4, 5}
DocHeadings == <<4, 0, 1, 0, 4>>   \* heading, blank, paragraph, blank, heading

BlockDocs ==
    UNION { [1..n -> BlockLines] : n \in 0..MaxLines } \cup {DocHeadings}

\* the Preview shows the blocks of an earlier content (none before the first
\* processing) and its content prop holds the current document
BlockInit ==
    /\ \E d \in BlockDocs :
          /\ ~processMarkdownBlocksCall(d).rejects
          /\ blocks = processMarkdownBlocks(d)
    /\ buffer \in BlockDocs
    /\ doc = buffer /\ paneWidth = Wide /\ changeBuffer = null
    /\ editorSections = <<>> /\ sectionInfoList = <<>>
    /\ editorScroller = [scrollTop |-> 0, scrollHeight |-> EditorClientHeight,
                         clientHeight |-> EditorClientHeight]
    /\ previewContainer = [scrollTop |-> 0, scrollHeight |-> PreviewClientHeight,
                           clientHeight |-> PreviewClientHeight]
    /\ editorScrollEvent = "none" /\ previewScrollEvent = "none"
    /\ processingTimeout = null /\ processingRuns = EmptyBag
    /\ isRendering = FALSE /\ renderJobs = 0 /\ releaseTimers = 0
    /\ syncScrollEnabled = TRUE /\ scrollSource = "null"
    /\ scrollSourceTimeout = 0 /\ pendingResets = {}
    /\ lastEditorScrollTop = 0 /\ lastPreviewScrollTop = 0
    /\ isResizingSidebar = FALSE /\ isResizingEditor = FALSE /\ isResizingTOC = FALSE
    /\ lastHandled = NothingHandled
    /\ measureSectionsTimeout = FALSE /\ initialMeasureTimeout = FALSE
    /\ windowResizeTimeout = 0 /\ remeasureFrames = {}
    /\ editorResizeTimeout = 0 /\ editorResizeFrames = 0
    /\ unsettled = {}
    /\ mapQuery = "none" /\ mapResult = <<>>
    /\ blockQuery = "none" /\ blockResult = <<>> /\ anim = AnimIdle
    /\ Opened(buffer, <<>>)

\* everything but the rendered blocks and the call record
blockFrame == <<viewVars, eventVars, ctrlVars, lastHandled, docVars, processingTimeout,
                processingRuns, isRendering, renderJobs, releaseTimers, dragVars,
                measureVars, unsettled, mapVars, animVars, appVars>>

\* splitIntoBlocks(content)
SplitIntoBlocks ==
    /\ blockQuery = "none"
    /\ blockQuery' = "splitIntoBlocks"
    /\ blockResult' = splitIntoBlocks(buffer)
    /\ UNCHANGED <<blocks, blockFrame>>

\* the callback of the 16 ms timer as a whole, Toolbar.svelte:707-717:
\* processMarkdownBlocks(currentContent), diffBlocks, the assignment of blocks.
\* When processMarkdownBlocks rejects, the statements after the await do not
\* run.
ProcessContent ==
    /\ blockQuery = "none"
    /\ LET run == processMarkdownBlocksCall(buffer)
           newBlocks == run.value
           diffs == diffBlocks(blocks, newBlocks)
           hasChanges == \E p \in DOMAIN diffs : diffs[p].type # "keep"
       IN  /\ blockQuery' = "processMarkdownBlocks"
           /\ blockResult' = [rejects |-> run.rejects,
                              processBlockCalls |-> run.processBlockCalls,
                              oldBlocks |-> blocks,
                              newBlocks |-> newBlocks,
                              diffs |-> IF run.rejects THEN <<>> ELSE diffs]
           /\ blocks' = IF ~run.rejects /\ hasChanges THEN newBlocks ELSE blocks
    /\ UNCHANGED blockFrame

\* the [data-source-line] elements of the preview in document order, each
\* with its block, its place in the block's html and its attribute
RECURSIVE sourceLineElements(_, _)
sourceLineElements(blks, k) ==
    IF k > Len(blks) THEN <<>>
    ELSE [e \in 1..Len(blks[k].html) |->
            [block |-> k, element |-> e, elLine |-> blks[k].html[e].dataSourceLine]]
         \o sourceLineElements(blks, k + 1)

\* the loop of scrollToLine, Toolbar.svelte:1030-1040
RECURSIVE scrollToLineLoop(_, _, _, _, _)
scrollToLineLoop(elements, lineNumber, i, targetElement, closestLine) ==
    IF i > Len(elements) THEN targetElement
    ELSE IF elements[i].elLine <= lineNumber /\ elements[i].elLine > closestLine
         THEN scrollToLineLoop(elements, lineNumber, i + 1, elements[i], elements[i].elLine)
         ELSE scrollToLineLoop(elements, lineNumber, i + 1, targetElement, closestLine)

\* scrollToLine(lineNumber), Toolbar.svelte:1027-1045: the element scrolled
\* into view, or null
ScrollToLine(lineNumber) ==
    /\ blockQuery = "none"
    /\ blockQuery' = "scrollToLine"
    /\ blockResult' =
          [lineNumber |-> lineNumber,
           targetElement |-> scrollToLineLoop(sourceLineElements(blocks, 1), lineNumber,
                                              1, null, 0)]
    /\ UNCHANGED <<blocks, blockFrame>>

BlockNext ==
    \/ SplitIntoBlocks
    \/ ProcessContent
    \/ \E n \in 1..MaxLines : ScrollToLine(n)

BlockSpec == BlockInit /\ [][BlockNext]_vars

(***************************************************************************)
(* Scroll Mapper properties (MapSpec)                                      *)
(***************************************************************************)
Mapping == buildScrollMapping(editorSections, sectionInfoList)
editorMaxScroll == maxScrollOf(editorScroller)
previewMaxScroll == maxScrollOf(previewContainer)

EditorStartsNonDecreasing ==
    \A i \in 1..(Len(Mapping) - 1) :
        Mapping[i].editorDimension.startOffset <= Mapping[i + 1].editorDimension.startOffset
PreviewStartsNonDecreasing ==
    \A i \in 1..(Len(Mapping) - 1) :
        Mapping[i].previewDimension.startOffset <= Mapping[i + 1].previewDimension.startOffset
PreviewStartsIncreasing ==
    \A i \in 1..(Len(Mapping) - 1) :
        Mapping[i].previewDimension.startOffset < Mapping[i + 1].previewDimension.startOffset

\* width of the editor section the mapper places x in: distance to the next
\* section's start, or the last section's effective range
EditorSectionWidth(x) ==
    editorRange(Mapping, editorSectionLoop(x, Mapping, 1, 1), editorMaxScroll).by

C8_MappingMonotone ==
    (Mapping # null /\ mapQuery # "none"
       /\ EditorStartsNonDecreasing /\ PreviewStartsNonDecreasing)
    => \A x1, x2 \in DOMAIN mapResult :
          RLt(x1, x2) => RLe(mapResult[x1].value, mapResult[x2].value)

C8_Witness ==
    /\ mapQuery = "editorToPreview"
    /\ Mapping # null /\ Len(Mapping) = 2
    /\ EditorStartsNonDecreasing /\ PreviewStartsNonDecreasing
    /\ \E x1, x2 \in DOMAIN mapResult :
          /\ RLt(R(0), x1) /\ RLt(x1, x2) /\ RLt(x2, R(editorMaxScroll - 1))
          /\ RLt(mapResult[x1].value, mapResult[x2].value)
          /\ RLt(mapResult[x2].value, R(previewMaxScroll))

C1_SyncEventIgnored ==
    lastHandled.origin = "sync" => lastHandled.outcome # "accepted"

\* the steps in which a handler consumes a queued scroll event
EditorEventHandled == editorScrollEvent # "none" /\ editorScrollEvent' = "none"
PreviewEventHandled == previewScrollEvent # "none" /\ previewScrollEvent' = "none"

\* C2: while scrollSource is 'editor' a preview scroll event is dropped: the
\* editor's scroll position, scrollSource, the pending reset timer and
\* lastPreviewScrollTop stay as they are and the event leaves the queue; the
\* same for editor events while scrollSource is 'preview'.
C2_EventOfDrivenViewDropped ==
    [][ /\ (scrollSource = "editor" /\ PreviewEventHandled)
            => /\ editorScroller' = editorScroller
               /\ editorScrollEvent' = editorScrollEvent
               /\ UNCHANGED ctrlVars
        /\ (scrollSource = "preview" /\ EditorEventHandled)
            => /\ previewContainer' = previewContainer
               /\ previewScrollEvent' = previewScrollEvent
               /\ UNCHANGED ctrlVars ]_vars

\* a preview event that would otherwise have been accepted was dropped
\* because the editor drives
C2_Witness ==
    /\ lastHandled = [view |-> "preview", origin |-> "user", outcome |-> "source"]
    /\ scrollSource = "editor"
    /\ previewContainer.scrollTop # lastPreviewScrollTop
    /\ previewScrollEvent = "none"

\* C3: an accepted event replaces the pending reset timer by a new one, so at
\* most one reset timer is pending; scrollSource keeps naming the driver until
\* that timer fires, and the controller then returns to Idle.
C3_SingleResetTimer ==
    /\ [](/\ Cardinality(pendingResets) <= 1
          /\ scrollSource # "null" => pendingResets = {scrollSourceTimeout}
          /\ scrollSource = "null" => pendingResets = {})
    /\ [][ /\ (lastHandled'.outcome = "accepted" /\ (EditorEventHandled \/ PreviewEventHandled))
               => /\ pendingResets' = {scrollSourceTimeout'}
                  /\ scrollSource' = lastHandled'.view
           /\ (scrollSource # "null" /\ scrollSource' # scrollSource)
               => /\ scrollSource' = "null"
                  /\ pendingResets = {scrollSourceTimeout}
                  /\ pendingResets' = {} ]_vars
    /\ (scrollSource # "null" ~> scrollSource = "null")

\* a second accepted editor event (back at position 0) with its timer pending
C3_Witness ==
    /\ lastHandled = [view |-> "editor", origin |-> "user", outcome |-> "accepted"]
    /\ lastEditorScrollTop = 0
    /\ scrollSource = "editor"
    /\ pendingResets = {scrollSourceTimeout}

C4_NoSyncWhileUnsettled ==
    [][ unsettled # {}
        => /\ EditorEventHandled => previewContainer'.scrollTop = previewContainer.scrollTop
           /\ PreviewEventHandled => editorScroller'.scrollTop = editorScroller.scrollTop ]_vars

lineRanges(sections) ==
    [k \in 1..Len(sections) |-> <<sections[k].startLine, sections[k].endLine>>]

\* C5: when the re-measurement of the editor scheduled by a content change
\* runs, the line ranges it takes from the preview are those of the blocks of
\* that content, however long the preview's asynchronous render takes.
C5_MeasureAfterRender ==
    [][ (measureSectionsTimeout /\ ~measureSectionsTimeout' /\ Len(sectionInfoList) > 0)
        => lineRanges(sectionInfoList) = lineRanges(processMarkdownBlocks(buffer)) ]_vars



(***************************************************************************)
(* Section lists of different lengths (MismatchSpec)                       *)
(***************************************************************************)
numSections == Min2(Len(editorSections), Len(sectionInfoList))
editorPrefix == SubSeq(editorSections, 1, numSections)
previewPrefix == SubSeq(sectionInfoList, 1, numSections)

\* a mapper result is a position of the target view, computed without a
\* division by zero
IsPosition(result, maxScroll) ==
    /\ result.value # null
    /\ RLe(R(0), result.value) /\ RLe(result.value, R(maxScroll))
    /\ 0 \notin result.divs

Reprocessed == blockQuery = "processMarkdownBlocks" /\ ~blockResult.rejects
diffTypes == [p \in DOMAIN blockResult.diffs |-> blockResult.diffs[p].type]

\* C12: diffBlocks(old, new) has max(|old|, |new|) entries; the entry at
\* 0-based position i has index i and is 'add' iff i >= |old|, 'remove' iff
\* i >= |new|, 'keep' iff both blocks exist with equal sources, 'update'
\* otherwise; so an empty old list gives all 'add', an empty new list all
\* 'remove', and lists that differ in the source of one block k give
\* 'update' at k and 'keep' elsewhere.
C12_DiffByPosition ==
    Reprocessed
    => LET old == blockResult.oldBlocks
           new == blockResult.newBlocks
           diffs == blockResult.diffs
           bothExist(p) == p <= Len(old) /\ p <= Len(new)
       IN  /\ Len(diffs) = Max2(Len(old), Len(new))
           /\ \A p \in DOMAIN diffs :
                LET i == p - 1
                IN  /\ diffs[p].index = i
                    /\ (diffs[p].type = "add") <=> (i >= Len(old))
                    /\ (diffs[p].type = "remove") <=> (i >= Len(new))
                    /\ (diffs[p].type = "keep")
                         <=> (bothExist(p) /\ old[p].source = new[p].source)
                    /\ (diffs[p].type = "update")
                         <=> (bothExist(p) /\ old[p].source # new[p].source)
           /\ Len(old) = 0 => \A p \in DOMAIN diffs : diffs[p].type = "add"
           /\ Len(new) = 0 => \A p \in DOMAIN diffs : diffs[p].type = "remove"
           /\ \A k \in DOMAIN diffs :
                (/\ Len(old) = Len(new)
                 /\ \A p \in DOMAIN diffs : (old[p].source # new[p].source) <=> (p = k))
                => \A p \in DOMAIN diffs :
                      diffs[p].type = IF p = k THEN "update" ELSE "keep"

\* a block kept although its id and its line range changed, next to an
\* updated one
C12_Witness ==
    /\ Reprocessed
    /\ \E p, q \in DOMAIN blockResult.diffs :
          /\ diffTypes[p] = "keep"
          /\ blockResult.oldBlocks[p].id # blockResult.newBlocks[p].id
          /\ blockResult.oldBlocks[p].startLine # blockResult.newBlocks[p].startLine
          /\ diffTypes[q] = "update"

\* C13: diffBlocks(B, B) has |B| entries and every one is 'keep', for every
\* block list B (the empty one and those with repeated sources included);
\* re-processing the document that is displayed leaves blocks as it is.
C13_DiffIdempotent ==
    (Reprocessed /\ blockResult.oldBlocks = blockResult.newBlocks)
    => /\ Len(blockResult.diffs) = Len(blockResult.oldBlocks)
       /\ \A p \in DOMAIN blockResult.diffs : diffTypes[p] = "keep"
       /\ blocks = blockResult.oldBlocks

\* the displayed document, with two blocks of the same source and a third
\* one, is processed again
C13_Witness ==
    /\ Reprocessed
    /\ blockResult.oldBlocks = blockResult.newBlocks
    /\ Len(blockResult.oldBlocks) = 3
    /\ blockResult.oldBlocks[1].source = blockResult.oldBlocks[3].source
    /\ blockResult.oldBlocks[1].source # blockResult.oldBlocks[2].source

\* old = [X, Y], new = [N, X, Y], the three sources pairwise different
InsertedAtTop ==
    /\ Reprocessed
    /\ Len(blockResult.oldBlocks) = 2 /\ Len(blockResult.newBlocks) = 3
    /\ blockResult.newBlocks[2].source = blockResult.oldBlocks[1].source
    /\ blockResult.newBlocks[3].source = blockResult.oldBlocks[2].source
    /\ blockResult.newBlocks[1].source # blockResult.newBlocks[2].source
    /\ blockResult.newBlocks[1].source # blockResult.newBlocks[3].source
    /\ blockResult.newBlocks[2].source # blockResult.newBlocks[3].source

\* C14 as stated: inserting a block at the top of a 2-block document yields
\* the diff [add, update, update]
C14_InsertAtTopAddFirst ==
    InsertedAtTop => diffTypes = <<"add", "update", "update">>

\* C14: inserting a block at the top of a 2-block document yields the diff
\* [update, update, add]: the two old positions are updated and the added
\* position is the last one.
C14_InsertAtTopAddLast ==
    InsertedAtTop => diffTypes = <<"update", "update", "add">>

C14_Witness ==
    /\ InsertedAtTop
    /\ blocks = blockResult.newBlocks
    /\ blockResult.diffs[3].block = blockResult.newBlocks[3]

\* splitIntoBlocks(content) was called
Split == blockQuery = "splitIntoBlocks"
linesOf(block) == block.startLine..block.endLine

\* C15: for a non-empty document the line ranges of the blocks of
\* splitIntoBlocks do not overlap and their union is 1..totalLines: every
\* line, blank separator lines included, is in exactly one block.
C15_SegmentationCoverage ==
    (Split /\ ~isBlank(buffer))
    => /\ \A j, k \in DOMAIN blockResult :
            j # k => linesOf(blockResult[j]) \cap linesOf(blockResult[k]) = {}
       /\ UNION { linesOf(blockResult[k]) : k \in DOMAIN blockResult } = 1..Len(buffer)

\* C16: splitIntoBlocks returns one block per top-level node, in document
\* order, from the node's first to its last line (1-indexed), with those
\* whole lines as its source; every line outside the blocks is blank; a
\* heading on line 1, a paragraph on line 3 and a heading on line 5 give the
\* ranges (1,1), (3,3), (5,5); blank input gives the empty list.
C16_BlockPerNode ==
    Split
    => LET children == parseFrom(buffer, 1, 0)
           covered == UNION { linesOf(blockResult[k]) : k \in DOMAIN blockResult }
       IN  /\ isBlank(buffer) => blockResult = <<>>
           /\ Len(blockResult) = Len(children)
           /\ \A k \in DOMAIN blockResult :
                /\ blockResult[k].startLine = children[k].startLine
                /\ blockResult[k].endLine = children[k].endLine
                /\ 1 <= blockResult[k].startLine
                /\ blockResult[k].startLine <= blockResult[k].endLine
                /\ blockResult[k].endLine <= Len(buffer)
                /\ blockResult[k].source
                     = [n \in 1..(blockResult[k].endLine - blockResult[k].startLine + 1) |->
                          buffer[blockResult[k].startLine + n - 1]]
                /\ buffer[blockResult[k].startLine] # 0
                /\ buffer[blockResult[k].endLine] # 0
                /\ k > 1 => blockResult[k - 1].endLine < blockResult[k].startLine
           /\ \A n \in 1..Len(buffer) : n \notin covered => buffer[n] = 0
           /\ buffer = DocHeadings
                => blockResult = <<[source |-> <<4>>, startLine |-> 1, endLine |-> 1],
                                   [source |-> <<1>>, startLine |-> 3, endLine |-> 3],
                                   [source |-> <<4>>, startLine |-> 5, endLine |-> 5]>>

\* the document of the example was split into its three blocks
C16_Witness ==
    /\ Split
    /\ buffer = DocHeadings
    /\ Len(blockResult) = 3
    /\ blockResult[2].startLine = 3 /\ blockResult[2].endLine = 3

\* the ids of a block list are pairwise distinct, already by their ordinal
\* field
DistinctIds(blks) ==
    \A j, k \in DOMAIN blks :
        j # k => blks[j].id # blks[k].id /\ blks[j].id[1] # blks[k].id[1]

\* C17: the ids of every block list returned by processMarkdownBlocks are
\* pairwise distinct (they differ in the ordinal field, whatever the hash
\* is), also for blocks with the same source, and blocks with the same
\* source, start line and ordinal position have the same id.
C17_UniqueBlockIds ==
    /\ DistinctIds(blocks)
    /\ Reprocessed
         => /\ DistinctIds(blockResult.newBlocks)
            /\ \A k \in DOMAIN blockResult.newBlocks :
                  blockResult.newBlocks[k].id[1] = k - 1
            /\ \A j \in DOMAIN blockResult.oldBlocks, k \in DOMAIN blockResult.newBlocks :
                  (/\ j = k
                   /\ blockResult.oldBlocks[j].source = blockResult.newBlocks[k].source
                   /\ blockResult.oldBlocks[j].startLine = blockResult.newBlocks[k].startLine)
                  => blockResult.oldBlocks[j].id = blockResult.newBlocks[k].id

\* a document with the same text in two blocks was processed, after one that
\* had that text in its first block too
C17_Witness ==
    /\ Reprocessed
    /\ \E j, k \in DOMAIN blockResult.newBlocks :
          /\ j # k
          /\ blockResult.newBlocks[j].source = blockResult.newBlocks[k].source
          /\ blockResult.newBlocks[j].id # blockResult.newBlocks[k].id
    /\ Len(blockResult.oldBlocks) = 1
    /\ blockResult.oldBlocks[1].id = blockResult.newBlocks[1].id

\* how often processBlock was called for the block at position p of the new
\* list during the re-processing
processBlockCount(p) ==
    Cardinality({c \in DOMAIN blockResult.processBlockCalls :
                    blockResult.processBlockCalls[c].index = p - 1})

\* C18: in a re-processing processBlock is invoked exactly once for each
\* block the diff against the previous list classifies 'add' or 'update',
\* and not at all for a block classified 'keep'.
C18_RenderOnlyChangedBlocks ==
    Reprocessed
    => \A p \in DOMAIN blockResult.newBlocks :
          processBlockCount(p) = IF diffTypes[p] \in {"add", "update"} THEN 1 ELSE 0

\* the html of a block is an inline error placeholder
isErrorPlaceholder(html) ==
    Len(html) = 1 /\ "error" \in DOMAIN html[1]

\* C19: when the rendering of one block of the content throws, the
\* processing still completes and the Preview shows one block per block of
\* the content: an error placeholder for the failing one, the normal
\* rendering for every other one.
C19_FailingBlockIsolated ==
    LET rawBlocks == splitIntoBlocks(buffer)
    IN  (/\ blockQuery = "processMarkdownBlocks"
         /\ \E k \in DOMAIN rawBlocks : throws(rawBlocks[k].source))
        => /\ ~blockResult.rejects
           /\ Len(blocks) = Len(rawBlocks)
           /\ \A k \in DOMAIN rawBlocks :
                /\ k \in DOMAIN blocks
                /\ blocks[k].source = rawBlocks[k].source
                /\ IF throws(rawBlocks[k].source)
                   THEN isErrorPlaceholder(blocks[k].html)
                   ELSE blocks[k].html = processBlock(rawBlocks[k].source)

\* the document line the e-th element of a block originates from: the first
\* line of the e-th node of the block that renders
originLine(block, e) ==
    LET children == parseFrom(block.source, 1, 0)
        renders(node) == block.source[node.startLine] # 3
    IN  block.startLine + SelectSeq(children, renders)[e].startLine - 1

\* C20: every element of the rendered blocks carries as data-source-line the
\* document line it originates from, and scrollToLine(n) finds the element
\* that originates from line n when there is one.
C20_SourceLineIsDocumentLine ==
    blockQuery = "scrollToLine"
    => /\ \A k \in DOMAIN blocks : \A e \in DOMAIN blocks[k].html :
            blocks[k].html[e].dataSourceLine = originLine(blocks[k], e)
       /\ \A k \in DOMAIN blocks : \A e \in DOMAIN blocks[k].html :
            originLine(blocks[k], e) = blockResult.lineNumber
            => /\ blockResult.targetElement # null
               /\ blockResult.targetElement.block = k
               /\ blockResult.targetElement.element = e

(***************************************************************************)
(* Dimension Tracker properties (MountSpec)                                *)
(***************************************************************************)
\* C21: in every Section list of the two Dimension Trackers startOffset is
\* non-decreasing from each section to the next one in document order.
C21_StartOffsetsNonDecreasing ==
    /\ \A i \in 1..(Len(sectionInfoList) - 1) :
          sectionInfoList[i].previewDimension.startOffset
            <= sectionInfoList[i + 1].previewDimension.startOffset
    /\ \A i \in 1..(Len(editorSections) - 1) :
          editorSections[i].editorDimension.startOffset
            <= editorSections[i + 1].editorDimension.startOffset

\* the blocks whose element has child elements or a height of its own
\* (.markdown-block is display:contents: its own offsetHeight is 0)
blocksWithGeometry == { k \in DOMAIN blocks : hasChildren(blocks[k]) }

\* C22: a block whose rendered node has no geometry has no section in the
\* preview's Section list: the list of a measurement holds the sections of
\* the blocks with geometry only.
C22_NoSectionWithoutGeometry ==
    sectionInfoList # <<>>
    => /\ Len(sectionInfoList) = Cardinality(blocksWithGeometry)
       /\ \A k \in DOMAIN blocks :
            ~hasChildren(blocks[k])
            => \A i \in DOMAIN sectionInfoList :
                  sectionInfoList[i].startLine # blocks[k].startLine

(***************************************************************************)
(* Noise threshold (SyncSpec)                                              *)
(***************************************************************************)
\* Idle: no view drives, sync is enabled, no pane is being resized
Idle == scrollSource = "null" /\ syncScrollEnabled /\ ~isResizingLayout
\* the distance between two scroll positions exceeds the noise threshold
movedBeyondThreshold(from, to) ==
    RLt(getScrollSyncThreshold, RAbs(RSub(R(to), R(from))))

\* C23: in Idle, when a view is scrolled by more than the noise threshold
\* the scroll event it raises is one its handler accepts; an accepted event
\* makes the view the driver and sends the other view to the mapped
\* position; an event the threshold test rejects changes no controller
\* state and scrolls nothing.
C23_IdleScrollDrives ==
    [][/\ (/\ Idle /\ editorScrollEvent = "none" /\ editorScrollEvent' = "user"
           /\ movedBeyondThreshold(editorScroller.scrollTop, editorScroller'.scrollTop))
          => editorScrollOutcome' = "accepted"
       /\ (/\ Idle /\ previewScrollEvent = "none" /\ previewScrollEvent' = "user"
           /\ movedBeyondThreshold(previewContainer.scrollTop, previewContainer'.scrollTop))
          => previewScrollOutcome' = "accepted"
       /\ (Idle /\ editorScrollEvent # "none" /\ editorScrollEvent' = "none")
          => IF editorScrollOutcome = "accepted"
             THEN scrollSource' = "editor" /\ previewContainer' = previewAfterEditorScroll
             ELSE UNCHANGED <<ctrlVars, editorScroller, previewContainer>>
       /\ (Idle /\ previewScrollEvent # "none" /\ previewScrollEvent' = "none")
          => IF previewScrollOutcome = "accepted"
             THEN scrollSource' = "preview" /\ editorScroller' = editorAfterPreviewScroll
             ELSE UNCHANGED <<ctrlVars, editorScroller, previewContainer>>
      ]_vars

(***************************************************************************)
(* Debounced re-measurement after a resize (LayoutSpec)                    *)
(***************************************************************************)
\* re-measurements the editor's ResizeObserver has pending: armed 50 ms
\* timers and the frame chain a fired timer started
pendingEditorRemeasure ==
    editorResizeTimeout + (IF editorResizeFrames > 0 THEN 1 ELSE 0)
\* re-measurements the page's window resize handler has pending
pendingPageRemeasure == windowResizeTimeout

\* C24 as stated: at most one debounced re-measurement is pending at any
\* time during a burst of resizes.
C24_OneRemeasurePending ==
    pendingEditorRemeasure + pendingPageRemeasure <= 1

\* C24 per debouncer: each of the two debouncers (the page's window resize
\* handler, the editor's ResizeObserver) has at most one re-measurement
\* pending; a resize leaves the editor's debouncer with exactly one, the
\* cancelled one never runs; and the pending one ends in one measurement of
\* the sections.
C24_OneRemeasurePerDebouncer ==
    [][/\ pendingEditorRemeasure' <= 1
       /\ pendingPageRemeasure' <= 1
       /\ paneWidth' # paneWidth
          => /\ editorResizeTimeout' = 1 /\ editorResizeFrames' = 0
             /\ editorSections' = editorSections
       /\ (pendingPageRemeasure = 1 /\ pendingPageRemeasure' = 0)
          => editorSections' = syncSectionDimensions
       /\ (pendingEditorRemeasure = 1 /\ pendingEditorRemeasure' = 0
           /\ editorSections # <<>> /\ 1 \notin remeasureFrames)
          => editorSections' = remeasureEditorSections
      ]_vars
\* a burst: the window has been resized at least twice (the width is the
\* initial one again) and both debouncers have their one timer pending
C24_Witness ==
    /\ paneWidth = Wide
    /\ editorResizeTimeout = 1 /\ windowResizeTimeout = 1
    /\ editorResizeFrames = 0

(***************************************************************************)
(* Specification TrackerSpec: the Scroll Mapper over the Section lists     *)
(* the two Dimension Trackers measure for rendered documents               *)
(***************************************************************************)
MaxTrackedLines == 4
TrackedLines == {0, 1, 2, 3, 4}
TrackerDocs == UNION { [1..n -> TrackedLines] : n \in 1..MaxTrackedLines }

TrackerInit == \E d \in TrackerDocs : \E w \in {Wide, Narrow} : Settled(d, w, TRUE)

TrackerSpec == TrackerInit /\ [][MapNext]_vars

\* the start offsets the mapper call recorded in mapQuery searched
sourceStarts ==
    LET mapping == buildScrollMapping(editorSections, sectionInfoList)
    IN  [i \in DOMAIN mapping |->
            IF mapQuery = "editorToPreview" THEN mapping[i].editorDimension.startOffset
            ELSE mapping[i].previewDimension.startOffset]

targetMaxScroll ==
    IF mapQuery = "editorToPreview" THEN previewMaxScroll ELSE editorMaxScroll

\* C26: every non-null value of syncEditorToPreview lies in
\* [0, previewMaxScroll] and every non-null value of syncPreviewToEditor in
\* [0, editorMaxScroll], whatever the position and the section table.
C26_MappedPositionInRange ==
    mapQuery # "none"
    => \A x \in DOMAIN mapResult :
          mapResult[x].value # null
          => /\ RLe(R(0), mapResult[x].value)
             /\ RLe(mapResult[x].value, R(targetMaxScroll))

\* a table whose preview start offsets decrease and whose interpolation
\* section starts below the preview's end: the result is the preview's end
C26_Witness ==
    /\ mapQuery = "editorToPreview" /\ Mapping # null
    /\ ~PreviewStartsNonDecreasing
    /\ \E x \in DOMAIN mapResult :
          /\ mapResult[x].section > 0
          /\ Mapping[mapResult[x].section].previewDimension.startOffset > previewMaxScroll
          /\ Mapping[mapResult[x].section].previewDimension.height = 0
          /\ mapResult[x].value = R(previewMaxScroll)

(***************************************************************************)
(* Debounced re-segmentation (RenderSpec)                                  *)
(***************************************************************************)
\* C27: at most one re-segmentation timer is armed in the preview, it
\* captures the preview's current content; a content change that arrives
\* while a timer is armed replaces it without a processing run, so that a
\* burst ends in one run, on the last content.
C27_OneProcessingPerBurst ==
    [][/\ Len(processingTimeout') <= 1
       /\ processingTimeout' # null => processingTimeout' = <<buffer'>>
       /\ (buffer' # buffer /\ processingTimeout # null)
          => processingTimeout' = <<buffer'>> /\ processingRuns' = processingRuns
       /\ BagCardinality(processingRuns') > BagCardinality(processingRuns)
          => /\ processingRuns' = processingRuns (+) SetToBag({buffer})
             /\ processingTimeout' = null
      ]_vars

\* the content has changed and changed back to the first one while nothing
\* was processed, rendered or measured: the timer of the last change is armed
C27_Witness ==
    /\ processingTimeout = <<buffer>> /\ buffer = <<1>>
    /\ processingRuns = EmptyBag /\ blocks = processMarkdownBlocks(<<1>>)
    /\ renderJobs = 0 /\ releaseTimers = 0 /\ ~isRendering
    /\ "preview" \in unsettled

(***************************************************************************)
(* The Section list after a content change (RenderSpec)                    *)
(***************************************************************************)
\* the content change is fully processed: no change is buffered, no timer is
\* armed, no processing run, render or release is in flight
FullyProcessed ==
    /\ changeBuffer = null /\ buffer = doc
    /\ processingTimeout = null /\ processingRuns = EmptyBag
    /\ renderJobs = 0 /\ releaseTimers = 0
    /\ ~measureSectionsTimeout

\* C28: once a content change is fully processed the preview's Section list
\* has exactly one entry per block of the current block list, in the same
\* order (zero sections for zero blocks).
C28_SectionPerCurrentBlock ==
    FullyProcessed
    => /\ Len(sectionInfoList) = Len(blocks)
       /\ \A k \in DOMAIN blocks :
             /\ sectionInfoList[k].startLine = blocks[k].startLine
             /\ sectionInfoList[k].endLine = blocks[k].endLine

(***************************************************************************)
(* Specification AnimSpec: animateScrollTo of one view (Editor.svelte:     *)
(* 1871-1943, the Preview's copy Toolbar.svelte:921-985) under successive  *)
(* targets, animation frames and release timers                            *)
(***************************************************************************)
ANIMATION_DURATION == 50
SCROLL_THRESHOLD == 5
AnimEditorClientHeight == 600   \* view.scrollDOM.clientHeight of the animated editor
MaxAnimScroll == 12             \* scroll range of the animated view
AnimStep == 6                   \* the targets are the multiples of AnimStep
FrameMs == 16                   \* time from one animation frame to the next
MaxAnimReleases == 2            \* release timers pending at a time

AnimTargets == { k * AnimStep : k \in 0..(MaxAnimScroll \div AnimStep) }
\* a frame comes after FrameMs, or late, after the whole duration
FrameSteps == {FrameMs, ANIMATION_DURATION}

\* getScrollThreshold, Editor.svelte:1880-1884
getScrollThreshold(clientHeight) ==
    RMax(R(2), RMin(R(10), RMul(R(clientHeight), <<5, 1000>>)))

\* the threshold animateScrollTo of the view compares with
animationThreshold(view) ==
    IF view = "editor" THEN getScrollThreshold(AnimEditorClientHeight)
    ELSE R(SCROLL_THRESHOLD)

\* Math.abs(a - b) < threshold
withinThreshold(a, b, view) == RLt(RAbs(RSub(R(a), R(b))), animationThreshold(view))

easeOutQuad(t) == RMul(t, RSub(R(2), t))

\* the target the claim lets the view rest at after a call with target t:
\* t, unless t is within the threshold of the one before
nextRestTarget(t) ==
    IF withinThreshold(t, anim.restTarget, anim.view) THEN anim.restTarget ELSE t

\* animateScrollTo(targetScroll), lines 1892-1943 up to the first
\* requestAnimationFrame
AnimateScrollTo(targetScroll) ==
    LET currentScroll == anim.scrollTop
        called == [anim EXCEPT !.callSeq = 1 - anim.callSeq,
                               !.requested = targetScroll,
                               !.restTarget = nextRestTarget(targetScroll)]
    IN  /\ anim' =
              IF withinThreshold(targetScroll, currentScroll, anim.view) THEN called
              ELSE IF /\ anim.animationFrameId # 0
                      /\ withinThreshold(targetScroll, anim.lastTargetScroll, anim.view)
                   THEN called
              ELSE [called EXCEPT !.animationFrameId = 1,
                                  !.elapsed = 0,
                                  !.animationStartScroll = currentScroll,
                                  !.animationTargetScroll = targetScroll,
                                  !.lastTargetScroll = targetScroll,
                                  !.isSyncingScroll = TRUE]
        /\ UNCHANGED <<viewVars, eventVars, ctrlVars, lastHandled, pipelineVars, mapVars,
                       blockVars, appVars>>

\* the callback animate, lines 1919-1940, run dt ms after the previous frame
Animate ==
    /\ anim.animationFrameId # 0
    /\ \E dt \in FrameSteps :
        LET elapsed == Min2(anim.elapsed + dt, ANIMATION_DURATION)
            progress == Norm(elapsed, ANIMATION_DURATION)
            easedProgress == easeOutQuad(progress)
            newScroll ==
                RAdd(R(anim.animationStartScroll),
                     RMul(R(anim.animationTargetScroll - anim.animationStartScroll),
                          easedProgress))
            moved == [anim EXCEPT !.scrollTop = Max2(0, Min2(MaxAnimScroll, SnapPx(newScroll))),
                                  !.elapsed = elapsed]
        IN  IF RLt(progress, R(1))
            THEN anim' = moved
            ELSE /\ anim.releaseTimers < MaxAnimReleases
                 /\ anim' = [moved EXCEPT !.animationFrameId = 0,
                                          !.releaseTimers = anim.releaseTimers + 1]
    /\ UNCHANGED <<viewVars, eventVars, ctrlVars, lastHandled, pipelineVars, mapVars,
                   blockVars, appVars>>

\* the callback of the 100 ms timer of lines 1936-1938
AnimReleaseFires ==
    /\ anim.releaseTimers > 0
    /\ anim' = [anim EXCEPT !.isSyncingScroll = FALSE,
                            !.releaseTimers = anim.releaseTimers - 1]
    /\ UNCHANGED <<viewVars, eventVars, ctrlVars, lastHandled, pipelineVars, mapVars,
                   blockVars, appVars>>

\* an idle page whose editor or preview is at the top, nothing animated yet
AnimInit ==
    /\ editorSections = <<>>
    /\ sectionInfoList = <<>>
    /\ editorScroller = [scrollTop |-> 0, scrollHeight |-> EditorClientHeight,
                         clientHeight |-> EditorClientHeight]
    /\ previewContainer = [scrollTop |-> 0, scrollHeight |-> PreviewClientHeight,
                           clientHeight |-> PreviewClientHeight]
    /\ mapQuery = "none"
    /\ mapResult = <<>>
    /\ blockQuery = "none" /\ blockResult = <<>>
    /\ \E v \in {"editor", "preview"} : anim = [AnimIdle EXCEPT !.view = v]
    /\ editorScrollEvent = "none" /\ previewScrollEvent = "none"
    /\ doc = <<0>> /\ paneWidth = Wide /\ buffer = <<0>> /\ changeBuffer = null
    /\ isResizingSidebar = FALSE /\ isResizingEditor = FALSE /\ isResizingTOC = FALSE
    /\ measureSectionsTimeout = FALSE /\ windowResizeTimeout = 0
    /\ remeasureFrames = {} /\ editorResizeTimeout = 0 /\ editorResizeFrames = 0
    /\ unsettled = {}
    /\ blocks = <<>> /\ processingTimeout = null /\ processingRuns = EmptyBag
    /\ isRendering = FALSE /\ renderJobs = 0 /\ releaseTimers = 0
    /\ syncScrollEnabled = TRUE /\ scrollSource = "null"
    /\ scrollSourceTimeout = 0 /\ pendingResets = {}
    /\ lastEditorScrollTop = 0 /\ lastPreviewScrollTop = 0
    /\ initialMeasureTimeout = FALSE
    /\ lastHandled = NothingHandled
    /\ Opened(buffer, <<>>)

AnimNext ==
    \/ \E t \in AnimTargets : AnimateScrollTo(t)
    \/ Animate
    \/ AnimReleaseFires

AnimSpec == AnimInit /\ [][AnimNext]_vars

MaxBlockLines == 70    \* longest block measured
MaxBlockStart == 2     \* first lines of the measured blocks: 1..MaxBlockStart

SampleInit == MapIdle({<<>>}, {<<>>})

\* measureSections reaches the sampling of a block of lines
\* startLine..endLine (startLine < endLine, both ends have coordinates)
SampleBlockLines(startLine, endLine) ==
    /\ blockQuery = "none"
    /\ startLine < endLine
    /\ blockQuery' = "measureSections"
    /\ blockResult' = <<[startLine |-> startLine, endLine |-> endLine,
                         loopLines |-> loopLines(startLine, endLine),
                         lastLineChecked |-> lastLineChecked(startLine, endLine)]>>
    /\ UNCHANGED <<blockFrame, blocks>>

SampleNext ==
    \E startLine \in 1..MaxBlockStart :
        \E n \in 2..MaxBlockLines : SampleBlockLines(startLine, startLine + n - 1)

SampleSpec == SampleInit /\ [][SampleNext]_vars

\* C30: whatever the length of the block, the sampling loop of
\* measureSections visits at most 30 of its lines.
C30_AtMostThirtySamples ==
    blockQuery = "measureSections"
    => Cardinality(blockResult[1].loopLines) <= 30

(***************************************************************************)
(* The block list after overlapping processing runs (RenderSpec)           *)
(***************************************************************************)
\* what a block list shows: the source and the rendering of each block
shown(blks) == [k \in DOMAIN blks |-> <<blks[k].source, blks[k].html>>]

C32_LineRangesOfProcessedContent ==
    [][\A c \in BagToSet(processingRuns) :
          processingRuns' = processingRuns (-) SetToBag({c})
          => lineRanges(blocks') = lineRanges(processMarkdownBlocks(c))
      ]_vars

\* C33: isRendering is true as long as a render that a block-list change
\* started has not finished measuring the sections, also when that render
\* started before the release timer of an earlier one has fired.
C33_RenderingUntilMeasured ==
    renderJobs > 0 => isRendering

(***************************************************************************)
(* Changes of the driving view (SyncSpec)                                  *)
(***************************************************************************)
\* C34: scrollSource never changes directly from "editor" to "preview" or
\* from "preview" to "editor": between two drivers it is null.
C34_DriverChangesThroughNull ==
    [][/\ ~(scrollSource = "editor" /\ scrollSource' = "preview")
       /\ ~(scrollSource = "preview" /\ scrollSource' = "editor")
      ]_vars

\* the preview drives after an accepted event of its own, and the editor has
\* driven before (an editor event was accepted away from the top)
C34_Witness ==
    /\ scrollSource = "preview"
    /\ lastHandled = [view |-> "preview", origin |-> "user", outcome |-> "accepted"]
    /\ lastEditorScrollTop > 0

(***************************************************************************)
(* Saving and switching files (appState.svelte.ts:170-225)                 *)
(*                                                                         *)
(* A handler that awaits storage leaves its request in dbQueue and goes on *)
(* when the request completes; storage completes the requests in the order *)
(* they were issued.  Everything a handler does between two awaits is one  *)
(* step.                                                                   *)
(***************************************************************************)
MaxRequests == 1    \* requests in dbQueue when a handler other than moveFolder starts
MaxMoves == 2       \* requests in dbQueue once a moveFolder has started

\* await updateFileContent(activeFileId, buffer) of saveNow, line 212; then
\* is the file a selectFile that awaits this saveNow goes on to open
updateFileContentRequest(id, content, then) ==
    [op |-> "updateFileContent", id |-> id, content |-> content, then |-> then,
     folderId |-> nullId, newParentId |-> nullId]

\* await getFileById(id) of selectFile, line 176
getFileByIdRequest(id) ==
    [op |-> "getFileById", id |-> id, content |-> null, then |-> nullId,
     folderId |-> nullId, newParentId |-> nullId]

rowOf(table, id) == SelectSeq(table, LAMBDA row : row.id = id)
hasRow(table, id) == rowOf(table, id) # <<>>

\* db.files.update(id, {content}) of db.ts:107-112
withFileContent(table, id, content) ==
    [k \in DOMAIN table |-> IF table[k].id = id
                            THEN [table[k] EXCEPT !.content = content]
                            ELSE table[k]]

\* saveNow() up to its await, lines 205-212
saveNow(then) ==
    IF activeFileId = nullId \/ ~dirty
    THEN /\ isSaving' = FALSE
         /\ dbQueue' = IF then = nullId THEN dbQueue
                       ELSE Append(dbQueue, getFileByIdRequest(then))
    ELSE /\ dbQueue' = Append(dbQueue, updateFileContentRequest(activeFileId, buffer, then))
         /\ UNCHANGED isSaving

\* the callback of the 1000 ms timer, lines 200-202
SaveTimerFires ==
    /\ saveTimer > 0
    /\ Len(dbQueue) < MaxRequests
    /\ saveTimer' = saveTimer - 1
    /\ saveNow(nullId)
    /\ UNCHANGED <<viewVars, eventVars, ctrlVars, lastHandled, pipelineVars, mapVars,
                   blockVars, animVars, activeFileId, dirty, folders, files, db>>

\* Ctrl+S, +page.svelte:1270-1273
SaveNowKey ==
    /\ Len(dbQueue) < MaxRequests
    /\ saveNow(nullId)
    /\ UNCHANGED <<viewVars, eventVars, ctrlVars, lastHandled, pipelineVars, mapVars,
                   blockVars, animVars, activeFileId, dirty, saveTimer, folders, files, db>>

\* selectFile(id) up to its first await, lines 170-176: a click on a file
\* of the tree (FileTree.svelte:244)
SelectFile(id) ==
    /\ hasRow(files, id)
    /\ Len(dbQueue) < MaxRequests
    /\ IF dirty /\ activeFileId # nullId
       THEN saveNow(id)
       ELSE /\ dbQueue' = Append(dbQueue, getFileByIdRequest(id))
            /\ UNCHANGED isSaving
    /\ UNCHANGED <<viewVars, eventVars, ctrlVars, lastHandled, pipelineVars, mapVars,
                   blockVars, animVars, activeFileId, dirty, saveTimer, folders, files, db>>

\* updateFileContent completes and saveNow goes on, lines 213-220; a
\* selectFile that awaited it issues its getFileById
UpdateFileContentCompletes ==
    /\ dbQueue # <<>>
    /\ Head(dbQueue).op = "updateFileContent"
    /\ LET request == Head(dbQueue)
       IN  /\ db' = [db EXCEPT !.files = withFileContent(db.files, request.id, request.content)]
           /\ dirty' = FALSE
           /\ isSaving' = FALSE
           /\ files' = withFileContent(files, activeFileId, buffer)
           /\ dbQueue' = IF request.then = nullId THEN Tail(dbQueue)
                         ELSE Append(Tail(dbQueue), getFileByIdRequest(request.then))
    /\ UNCHANGED <<viewVars, eventVars, ctrlVars, lastHandled, pipelineVars, mapVars,
                   blockVars, animVars, activeFileId, saveTimer, folders>>

\* getFileById completes and selectFile goes on, lines 177-186
GetFileByIdCompletes ==
    /\ dbQueue # <<>>
    /\ Head(dbQueue).op = "getFileById"
    /\ dbQueue' = Tail(dbQueue)
    /\ LET file == rowOf(db.files, Head(dbQueue).id)
       IN  IF file # <<>>
           THEN /\ activeFileId' = file[1].id
                /\ buffer' = file[1].content
                /\ dirty' = FALSE
                /\ bufferEffects(file[1].content)
           ELSE UNCHANGED <<activeFileId, buffer, dirty, processingTimeout, doc,
                            editorScroller, editorScrollEvent, unsettled>>
    /\ UNCHANGED <<editorSections, sectionInfoList, previewContainer, previewScrollEvent,
                   paneWidth, changeBuffer, blocks, processingRuns, isRendering, renderJobs,
                   releaseTimers, ctrlVars, lastHandled, dragVars, measureVars, mapVars,
                   blockVars, animVars, isSaving, saveTimer, folders, files, db>>

(***************************************************************************)
(* Specification SaveSpec: two files, the editor's change buffer, the save *)
(* timer and switches between the files; what is typed while a file is     *)
(* active is a text of that file (FileDocs)                                *)
(***************************************************************************)
FileDocs(id) ==
    IF id = 1 THEN { <<1>>, <<1, 0, 1>> }
    ELSE IF id = 2 THEN { <<2>>, <<2, 0, 2>> }
    ELSE {}

SaveInit ==
    SettledWith(<<1>>, Wide, TRUE,
                <<[id |-> 2, folderId |-> 1, title |-> 2, content |-> <<2>>]>>)

\* the user types a text of the active file
UserEditsActiveFile(d) ==
    /\ d \in FileDocs(activeFileId)
    /\ UserEdits(d)

SaveNext ==
    \/ \E d \in FileDocs(1) \cup FileDocs(2) : UserEditsActiveFile(d)
    \/ ChangeTimeoutFires
    \/ SaveTimerFires
    \/ \E id \in 1..2 : SelectFile(id)
    \/ UpdateFileContentCompletes
    \/ GetFileByIdCompletes

SaveSpec == SaveInit /\ [][SaveNext]_vars

(***************************************************************************)
(* Specification AutosaveSpec: edits of the open file, the save timer and  *)
(* Ctrl+S, with no switch to another file                                  *)
(***************************************************************************)
AutosaveNext ==
    \/ \E d \in FileDocs(1) : UserEditsActiveFile(d)
    \/ ChangeTimeoutFires
    \/ SaveTimerFires
    \/ SaveNowKey
    \/ UpdateFileContentCompletes

AutosaveSpec == SaveInit /\ [][AutosaveNext]_vars

\* no save timer pending and no saveNow in flight
Quiescent ==
    /\ saveTimer = 0
    /\ \A k \in DOMAIN dbQueue : dbQueue[k].op # "updateFileContent"

\* the content storage holds for the active file
persisted == rowOf(db.files, activeFileId)[1].content

\* C35: at every quiescent point with an active file, dirty is false and
\* the content persisted for the active file equals the buffer.
C35_QuiescentMeansSaved ==
    (Quiescent /\ activeFileId # nullId) => (~dirty /\ persisted = buffer)

\* C36: every updateFileContent(id, c) call writes a content c produced by
\* edits made while id was the active file.
C36_WritesContentOfItsFile ==
    \A k \in DOMAIN dbQueue :
        dbQueue[k].op = "updateFileContent" => dbQueue[k].content \in FileDocs(dbQueue[k].id)

(***************************************************************************)
(* Folders and files (db.ts:68-192, appState.svelte.ts:227-310, 376-439)   *)
(***************************************************************************)
MaxNewFolderKey == 3 \* last key newFolder is given
MaxNewFileKey == 2  \* last key newFile is given
MaxFolderKey == 6   \* last key of db.folders: importBackup starts at a key newFolder is given
MaxFileKey == 4     \* last key of db.files: importBackup starts at a key newFile is given

\* folderNameExists(name, parentId), db.ts:37-50
folderNameExists(d, name, parentId) ==
    \E k \in DOMAIN d.folders : d.folders[k].parentId = parentId /\ d.folders[k].name = name

\* fileNameExists(title, folderId), db.ts:53-66
fileNameExists(d, title, folderId) ==
    \E k \in DOMAIN d.files : d.files[k].folderId = folderId /\ d.files[k].title = title

\* createFolder(name, parentId) on tables d, db.ts:68-84, when the name is free
createFolder(d, name, parentId) ==
    [d EXCEPT !.folders = Append(d.folders, [id |-> d.folderKey + 1, name |-> name,
                                             parentId |-> parentId]),
              !.folderKey = d.folderKey + 1]

\* createFile(folderId, title, content) on tables d, db.ts:86-105, when the title is free
createFile(d, folderId, title, content) ==
    [d EXCEPT !.files = Append(d.files, [id |-> d.fileKey + 1, folderId |-> folderId,
                                         title |-> title, content |-> content]),
              !.fileKey = d.fileKey + 1]

\* deleteFile(id), db.ts:150-152
deleteFile(d, id) ==
    [d EXCEPT !.files = SelectSeq(d.files, LAMBDA file : file.id # id)]

RECURSIVE deleteFolder(_, _)
RECURSIVE deleteSubfolders(_, _, _)
\* the loop of deleteFolder over subfolders, db.ts:159-163
deleteSubfolders(d, subfolders, k) ==
    IF k > Len(subfolders) THEN d
    ELSE deleteSubfolders(deleteFolder(d, subfolders[k].id), subfolders, k + 1)

\* deleteFolder(id), db.ts:154-166
deleteFolder(d, id) ==
    LET filesDeleted == [d EXCEPT !.files = SelectSeq(d.files, LAMBDA file : file.folderId # id)]
        subfolders == SelectSeq(d.folders, LAMBDA folder : folder.parentId = id)
        subfoldersDeleted == deleteSubfolders(filesDeleted, subfolders, 1)
    IN  [subfoldersDeleted EXCEPT
            !.folders = SelectSeq(subfoldersDeleted.folders, LAMBDA folder : folder.id # id)]

\* the parentId of the folder row with this id, parentFolder?.parentId ?? null
parentOf(table, id) ==
    IF hasRow(table, id) THEN rowOf(table, id)[1].parentId ELSE nullId

\* the ancestors of a folder, the nearest first, as far as n steps up
RECURSIVE ancestors(_, _, _)
ancestors(table, id, n) ==
    IF n = 0 \/ parentOf(table, id) = nullId THEN <<>>
    ELSE <<parentOf(table, id)>> \o ancestors(table, parentOf(table, id), n - 1)

\* the folder is shown in the tree buildFileTree makes (lines 57-135): its
\* parents lead to the root level
inTree(table, id) ==
    /\ hasRow(table, id)
    /\ Len(ancestors(table, id, Len(table))) < Len(table)

\* the parent relation has no cycle
Acyclic(table) == \A k \in DOMAIN table : inTree(table, table[k].id)

\* the state changes of removeFile and removeFolder when the active file
\* went, lines 252-256 and 264-268, or none
closeActiveFile(closing) ==
    IF closing
    THEN /\ activeFileId' = nullId
         /\ buffer' = DocEmpty
         /\ dirty' = FALSE
         /\ bufferEffects(DocEmpty)
    ELSE UNCHANGED <<activeFileId, buffer, dirty, processingTimeout, doc, editorScroller,
                     editorScrollEvent, unsettled>>

\* what no handler of storage touches on the page
treeFrame == <<editorSections, sectionInfoList, previewContainer, previewScrollEvent,
               paneWidth, changeBuffer, blocks, processingRuns, isRendering, renderJobs,
               releaseTimers, ctrlVars, lastHandled, dragVars, measureVars, mapVars,
               blockVars, animVars>>

\* newFolder(name, parentId), lines 227-236; the name is a new one
NewFolder(parentId) ==
    /\ parentId = nullId \/ inTree(folders, parentId)
    /\ db.folderKey < MaxNewFolderKey
    /\ ~folderNameExists(db, db.folderKey + 1, parentId)
    /\ db' = createFolder(db, db.folderKey + 1, parentId)
    /\ folders' = db'.folders
    /\ files' = db'.files
    /\ UNCHANGED <<treeFrame, doc, buffer, editorScroller, editorScrollEvent, unsettled,
                   processingTimeout, activeFileId, dirty, isSaving, saveTimer, dbQueue>>

\* newFile(folderId, title), lines 238-248, up to the await of selectFile;
\* the title is a new one
NewFile(folderId) ==
    /\ folderId = nullId \/ inTree(folders, folderId)
    /\ db.fileKey < MaxNewFileKey
    /\ Len(dbQueue) < MaxRequests
    /\ ~fileNameExists(db, db.fileKey + 1, folderId)
    /\ db' = createFile(db, folderId, db.fileKey + 1, DocEmpty)
    /\ folders' = db'.folders
    /\ files' = db'.files
    /\ IF dirty /\ activeFileId # nullId
       THEN saveNow(db.fileKey + 1)
       ELSE /\ dbQueue' = Append(dbQueue, getFileByIdRequest(db.fileKey + 1))
            /\ UNCHANGED isSaving
    /\ UNCHANGED <<treeFrame, doc, buffer, editorScroller, editorScrollEvent, unsettled,
                   processingTimeout, activeFileId, dirty, saveTimer>>

\* removeFile(id), lines 250-258
RemoveFile(id) ==
    /\ hasRow(files, id)
    /\ db' = deleteFile(db, id)
    /\ closeActiveFile(activeFileId = id)
    /\ folders' = db'.folders
    /\ files' = db'.files
    /\ UNCHANGED <<treeFrame, isSaving, saveTimer, dbQueue>>

\* removeFolder(id), lines 260-270
RemoveFolder(id) ==
    /\ inTree(folders, id)
    /\ LET activeInFolder ==
               \E k \in DOMAIN files : files[k].folderId = id /\ files[k].id = activeFileId
       IN  /\ db' = deleteFolder(db, id)
           /\ closeActiveFile(activeInFolder)
    /\ folders' = db'.folders
    /\ files' = db'.files
    /\ UNCHANGED <<treeFrame, isSaving, saveTimer, dbQueue>>

\* await db.folders.get(currentId) of moveFolder, db.ts:187
foldersGetRequest(currentId, folderId, newParentId) ==
    [op |-> "folders.get", id |-> currentId, content |-> null, then |-> nullId,
     folderId |-> folderId, newParentId |-> newParentId]

\* await db.folders.update(folderId, {parentId}) of moveFolder, db.ts:191
foldersUpdateRequest(folderId, newParentId) ==
    [op |-> "folders.update", id |-> folderId, content |-> null, then |-> nullId,
     folderId |-> folderId, newParentId |-> newParentId]

\* moveFolder from the test of one pass of its loop to its next await, db.ts:182-191:
\* "throws" when currentId is the folder, the update once currentId is null
moveFolderLoop(queue, currentId, folderId, newParentId) ==
    IF currentId = nullId THEN Append(queue, foldersUpdateRequest(folderId, newParentId))
    ELSE IF currentId = folderId THEN queue
    ELSE Append(queue, foldersGetRequest(currentId, folderId, newParentId))

\* moveFolderToParent(folderId, newParentId), lines 302-310, up to the
\* first await of moveFolder: a folder of the tree dropped on another folder
\* or on the root level (FileTree.svelte:577-612, Sidebar.svelte:73-85)
MoveFolder(folderId, newParentId) ==
    /\ inTree(folders, folderId)
    /\ newParentId = nullId \/ inTree(folders, newParentId)
    /\ folderId # newParentId
    /\ parentOf(folders, folderId) # newParentId
    /\ Len(dbQueue) < MaxMoves
    /\ dbQueue' = moveFolderLoop(dbQueue, newParentId, folderId, newParentId)
    /\ UNCHANGED <<treeFrame, doc, buffer, editorScroller, editorScrollEvent, unsettled,
                   processingTimeout, activeFileId, dirty, isSaving, saveTimer, folders,
                   files, db>>

\* db.folders.get completes and the loop of moveFolder goes on, db.ts:187-188
FoldersGetCompletes ==
    /\ dbQueue # <<>>
    /\ Head(dbQueue).op = "folders.get"
    /\ LET request == Head(dbQueue)
       IN  dbQueue' = moveFolderLoop(Tail(dbQueue), parentOf(db.folders, request.id),
                                     request.folderId, request.newParentId)
    /\ UNCHANGED <<treeFrame, doc, buffer, editorScroller, editorScrollEvent, unsettled,
                   processingTimeout, activeFileId, dirty, isSaving, saveTimer, folders,
                   files, db>>

\* db.folders.update completes, db.ts:191, and moveFolderToParent refreshes
FoldersUpdateCompletes ==
    /\ dbQueue # <<>>
    /\ Head(dbQueue).op = "folders.update"
    /\ LET request == Head(dbQueue)
       IN  db' = [db EXCEPT !.folders =
                     [k \in DOMAIN db.folders |->
                         IF db.folders[k].id = request.folderId
                         THEN [db.folders[k] EXCEPT !.parentId = request.newParentId]
                         ELSE db.folders[k]]]
    /\ dbQueue' = Tail(dbQueue)
    /\ folders' = db'.folders
    /\ files' = db'.files
    /\ UNCHANGED <<treeFrame, doc, buffer, editorScroller, editorScrollEvent, unsettled,
                   processingTimeout, activeFileId, dirty, isSaving, saveTimer>>

\* exportBackup(), lines 376-384: what JSON.parse gives back of its result
exportBackup == [folders |-> folders, files |-> files]

\* the two loops that clear the tables, lines 394-399
RECURSIVE deleteFiles(_, _, _)
deleteFiles(d, rows, k) ==
    IF k > Len(rows) THEN d ELSE deleteFiles(deleteFile(d, rows[k].id), rows, k + 1)

\* sortedFolders, lines 403-408: the sort is stable and compares nothing
\* but "is a root"
sortedFolders(backup) ==
    SelectSeq(backup.folders, LAMBDA folder : folder.parentId = nullId)
    \o SelectSeq(backup.folders, LAMBDA folder : folder.parentId # nullId)

\* folderIdMap[id] ?? null
mapped(folderIdMap, id) ==
    IF id \in DOMAIN folderIdMap THEN folderIdMap[id] ELSE nullId

\* the loop over sortedFolders, lines 410-421: the tables and folderIdMap
RECURSIVE importFolders(_, _, _)
importFolders(state, sorted, k) ==
    IF k > Len(sorted) THEN state
    ELSE LET folder == sorted[k]
             newParentId == IF folder.parentId # nullId
                            THEN mapped(state.folderIdMap, folder.parentId)
                            ELSE nullId
             created == createFolder(state.d, folder.name, newParentId)
         IN  importFolders([d |-> created,
                            folderIdMap |-> [id \in DOMAIN state.folderIdMap \cup {folder.id} |->
                                                IF id = folder.id THEN created.folderKey
                                                ELSE state.folderIdMap[id]]],
                           sorted, k + 1)

\* the loop over backup.files, lines 424-427
RECURSIVE importFiles(_, _, _, _)
importFiles(d, folderIdMap, rows, k) ==
    IF k > Len(rows) THEN d
    ELSE LET file == rows[k]
             newFolderId == IF file.folderId # nullId THEN mapped(folderIdMap, file.folderId)
                            ELSE nullId
         IN  importFiles(createFile(d, newFolderId, file.title, file.content),
                         folderIdMap, rows, k + 1)

\* the tables importBackup leaves, lines 394-427
imported(backup) ==
    LET cleared == deleteSubfolders(deleteFiles(db, files, 1), folders, 1)
        withFolders == importFolders([d |-> cleared, folderIdMap |-> <<>>],
                                     sortedFolders(backup), 1)
    IN  importFiles(withFolders.d, withFolders.folderIdMap, backup.files, 1)

\* importBackup of what exportBackup gave, lines 386-439, up to the await
\* of selectFile; on a hierarchy with a cycle deleteFolder does not return
ImportBackup ==
    /\ Acyclic(folders)
    /\ db.folderKey <= MaxNewFolderKey
    /\ db.fileKey <= MaxNewFileKey
    /\ Len(dbQueue) < MaxRequests
    /\ db' = imported(exportBackup)
    /\ folders' = db'.folders
    /\ files' = db'.files
    /\ activeFileId' = nullId
    /\ buffer' = DocEmpty
    /\ dirty' = FALSE
    /\ bufferEffects(DocEmpty)
    /\ dbQueue' = IF Len(files') > 0 THEN Append(dbQueue, getFileByIdRequest(files'[1].id))
                  ELSE dbQueue
    /\ UNCHANGED <<treeFrame, isSaving, saveTimer>>

(***************************************************************************)
(* Specification TreeSpec: the operations of the file tree on the storage  *)
(* initialize() creates; nothing is typed                                  *)
(***************************************************************************)
FolderKeys == 1..MaxFolderKey
FileKeys == 1..MaxFileKey

TreeInit == Settled(<<1>>, Wide, TRUE)

\* a folder is dropped while no other request waits
MoveFolderAlone(folderId, newParentId) ==
    /\ dbQueue = <<>>
    /\ MoveFolder(folderId, newParentId)

TreeNext ==
    \/ \E parentId \in {nullId} \cup FolderKeys : NewFolder(parentId)
    \/ \E folderId \in {nullId} \cup FolderKeys : NewFile(folderId)
    \/ \E id \in FileKeys : SelectFile(id)
    \/ GetFileByIdCompletes
    \/ \E id \in FileKeys : RemoveFile(id)
    \/ \E id \in FolderKeys : RemoveFolder(id)
    \/ \E folderId \in FolderKeys : \E newParentId \in {nullId} \cup FolderKeys :
          MoveFolderAlone(folderId, newParentId)
    \/ FoldersGetCompletes
    \/ FoldersUpdateCompletes
    \/ ImportBackup

TreeSpec == TreeInit /\ [][TreeNext]_vars

(***************************************************************************)
(* Specification MoveSpec: folders are created and moved, a second move    *)
(* starting before the first has finished                                  *)
(***************************************************************************)
MoveNext ==
    \/ \E parentId \in {nullId} \cup FolderKeys : NewFolder(parentId)
    \/ \E folderId \in FolderKeys : \E newParentId \in {nullId} \cup FolderKeys :
          MoveFolder(folderId, newParentId)
    \/ FoldersGetCompletes
    \/ FoldersUpdateCompletes

MoveSpec == TreeInit /\ [][MoveNext]_vars

\* C37: activeFileId is null or the id of a file that exists in storage.
C37_ActiveFileExists ==
    activeFileId = nullId \/ hasRow(db.files, activeFileId)

\* C38: the folder parent relation stays acyclic.
C38_FoldersAcyclic ==
    Acyclic(db.folders)

\* the name of the parent of a folder row, 0 at the root level
parentName(table, folder) ==
    IF hasRow(table, folder.parentId) THEN rowOf(table, folder.parentId)[1].name ELSE nullId

\* the folders by name with the names of their parents, and the files by
\* title with their content and the names of their folders
treeOf(d) ==
    [folders |-> { <<d.folders[k].name, parentName(d.folders, d.folders[k])>> :
                      k \in DOMAIN d.folders },
     files |-> { <<d.files[k].title, d.files[k].content,
                   parentName(d.folders, [parentId |-> d.files[k].folderId])>> :
                    k \in DOMAIN d.files }]

\* C39: importing the result of exportBackup restores the same tree: every
\* folder under the copy of its parent, every file in the copy of its
\* folder with its title and content.
C39_ImportRestoresTree ==
    [][ImportBackup => treeOf(db') = treeOf(db)]_vars

============================================================================
